---- MODULE Spec2Model ----
(***************************************************************************)
(* A TLA+ model of the literate-crypto library: PKCS#7 padding, the ECB,   *)
(* CBC and CTR block modes, the 256-bit modular number engine, elliptic    *)
(* curve point arithmetic and the ECDSA signature scheme.                  *)
(*                                                                         *)
(* Every subsystem is a small state machine over its own variables; the    *)
(* variables of the other subsystems stay at their idle value.  Pure       *)
(* functions of the library are operators, written the way the Rust code   *)
(* computes them.  A Rust panic is modelled as the result "Panic".         *)
(***************************************************************************)
EXTENDS Integers, Naturals, Sequences, FiniteSets, TLC

VARIABLES padOp, padN, padIn, padOut,
          cpc, cmode, cbs, civ, cnonce, ckey, cplain, ccipher, cdec,
          spc, curve, hsel, keyIn, skey, pkey, smsg, snonce, sattempts, sig,
          vkey, vsig, vres,
          mkeys, mlocal, mcommit, mreveal, mrand, msigned,
          fpc, fbs, fhash, fkey, fchunk, fout, fseeds,
          npc, na, nb, np, nres,
          ppc, pcv, pp1, pp2, pres, pn, pi, pacc, pdbl,
          hpc, hkind, hrate, hm1, hm2, hout1, hout2,
          tpc, tseed, tblock, tkey, tmsg, ttag, ttag2,
          apc, avar, akey, ablock, aw, ai, astate, akeys, acipher, adec,
          rpc, rstream, rstart, rend, rres

padVars == <<padOp, padN, padIn, padOut>>
cipherVars == <<cpc, cmode, cbs, civ, cnonce, ckey, cplain, ccipher, cdec>>
sigVars == <<spc, curve, hsel, keyIn, skey, pkey, smsg, snonce, sattempts,
             sig, vkey, vsig, vres>>
multiVars == <<mkeys, mlocal, mcommit, mreveal, mrand, msigned>>
fortunaVars == <<fpc, fbs, fhash, fkey, fchunk, fout, fseeds>>
numVars == <<npc, na, nb, np, nres>>
pointVars == <<ppc, pcv, pp1, pp2, pres, pn, pi, pacc, pdbl>>
hashPadVars == <<hpc, hkind, hrate, hm1, hm2, hout1, hout2>>
hmacVars == <<tpc, tseed, tblock, tkey, tmsg, ttag, ttag2>>
aesVars == <<apc, avar, akey, ablock, aw, ai, astate, akeys, acipher, adec>>
randVars == <<rpc, rstream, rstart, rend, rres>>
vars == <<padVars, cipherVars, sigVars, multiVars, fortunaVars, numVars, pointVars, hashPadVars, hmacVars, aesVars, randVars>>

\* what an operation of one subsystem leaves alone
notPad == <<cipherVars, sigVars, multiVars, fortunaVars, numVars, pointVars, hashPadVars, hmacVars, aesVars, randVars>>
notCipher == <<padVars, sigVars, multiVars, fortunaVars, numVars, pointVars, hashPadVars, hmacVars, aesVars, randVars>>
notSig == <<padVars, cipherVars, multiVars, fortunaVars, numVars, pointVars, hashPadVars, hmacVars, aesVars, randVars>>
notMulti == <<padVars, cipherVars, fortunaVars, numVars, pointVars, hashPadVars, hmacVars, aesVars, randVars>>
notFortuna == <<padVars, cipherVars, sigVars, multiVars, numVars, pointVars, hashPadVars, hmacVars, aesVars, randVars>>
notNum == <<padVars, cipherVars, sigVars, multiVars, fortunaVars, pointVars, hashPadVars, hmacVars, aesVars, randVars>>
notPoint == <<padVars, cipherVars, sigVars, multiVars, fortunaVars, numVars, hashPadVars, hmacVars, aesVars, randVars>>
notHashPad == <<padVars, cipherVars, sigVars, multiVars, fortunaVars, numVars, pointVars, hmacVars, aesVars, randVars>>
notHmac == <<padVars, cipherVars, sigVars, multiVars, fortunaVars, numVars, pointVars, hashPadVars, aesVars, randVars>>
notAes == <<padVars, cipherVars, sigVars, multiVars, fortunaVars, numVars, pointVars, hashPadVars, hmacVars, randVars>>
notRand == <<padVars, cipherVars, sigVars, multiVars, fortunaVars, numVars, pointVars, hashPadVars, hmacVars, aesVars>>

(***************************************************************************)
(* Bounds of the model.                                                    *)
(***************************************************************************)
\* longest byte sequence enumerated exhaustively
MaxLen == 4
\* largest block size of the ECB / CBC block cipher instance
MaxBlock == 3
\* longest patterned plaintext (crosses two CTR blocks)
MaxLongLen == 19

(***************************************************************************)
(* Bytes.                                                                  *)
(***************************************************************************)
Byte == 0..255

\* byte values the enumerated sequences are built from: small values that
\* look like padding bytes, zero, and the largest byte
ByteSample == {0, 1, 2, 255}

Pow2 == <<1, 2, 4, 8, 16, 32, 64, 128, 256>>

\* a ^ b on u8
Xor(a, b) ==
    LET bit(i) == ((a \div Pow2[i]) + (b \div Pow2[i])) % 2
    IN  bit(1) + 2 * bit(2) + 4 * bit(3) + 8 * bit(4) + 16 * bit(5)
        + 32 * bit(6) + 64 * bit(7) + 128 * bit(8)

\* zip(a, b).for_each(|(a, b)| *a ^= b): stops at the shorter operand and
\* leaves the rest of a alone
XorInto(a, b) ==
    [i \in 1..Len(a) |-> IF i <= Len(b) THEN Xor(a[i], b[i]) ELSE a[i]]

Repeat(v, n) == [i \in 1..n |-> v]

SeqsUpTo(S, n) == UNION {[1..k -> S] : k \in 0..n}

\* a plaintext of the given length whose bytes follow a fixed pattern
Pattern(len, seed) == [i \in 1..len |-> (seed + 37 * i) % 256]

Ok(d) == [tag |-> "Ok", data |-> d]
Err(e) == [tag |-> e, data |-> <<>>]
Panic == [tag |-> "Panic", data |-> <<>>]
None == [tag |-> "None", data |-> <<>>]

(***************************************************************************)
(* PKCS#7 padding: cipher/block/padding/pkcs7.rs                           *)
(***************************************************************************)
\* the amount of padding with the modulo applied twice: no padding at all
\* for data that is already aligned
PadLenNoFullBlock(len, n) == (n - (len % n)) % n

\* let m = n - data.len() % n; let m = if m == 0 { n } else { m };
PadLen(len, n) ==
    LET m == n - (len % n)
    IN  IF m = 0 THEN n ELSE m

Pkcs7Pad(data, n) ==
    IF n >= 256 THEN Panic
    ELSE IF n = 0 THEN Panic  \* data.len() % 0
    ELSE LET m == PadLen(Len(data), n)
         IN  Ok(data \o Repeat(m, m))

Pkcs7Unpad(data, n) ==
    IF n >= 256 THEN Panic
    ELSE IF Len(data) = 0 THEN Err("InvalidPadding")
    ELSE LET m == data[Len(data)]
         IN  IF m = 0 \/ m > n THEN Err("InvalidPadding")
             \* &data[data.len() - m..] with m > data.len(): the usize
             \* subtraction overflows (or the slice index is out of range)
             ELSE IF m > Len(data) THEN Panic
             ELSE IF \E i \in (Len(data) - m + 1)..Len(data) : data[i] # m
                  THEN Err("InvalidPadding")
             ELSE Ok(SubSeq(data, 1, Len(data) - m))

PadBlockSizes == 1..MaxBlock
PadInputs == SeqsUpTo(ByteSample, MaxLen)

PadIdle == padOp = "idle" /\ padN = 0 /\ padIn = <<>> /\ padOut = None

\* Pkcs7::pad(x, n)
Pad ==
    \E x \in PadInputs, n \in PadBlockSizes :
        /\ padOp = "idle"
        /\ padOp' = "pad"
        /\ padN' = n
        /\ padIn' = x
        /\ padOut' = Pkcs7Pad(x, n)
        /\ UNCHANGED notPad

\* Pkcs7::unpad(d, n) on an arbitrary buffer
Unpad ==
    \E d \in PadInputs, n \in PadBlockSizes :
        /\ padOp = "idle"
        /\ padOp' = "unpad"
        /\ padN' = n
        /\ padIn' = d
        /\ padOut' = Pkcs7Unpad(d, n)
        /\ UNCHANGED notPad

\* Pkcs7::unpad applied to the buffer the last pad returned
UnpadPadded ==
    /\ padOp = "pad"
    /\ padOut.tag = "Ok"
    /\ padOp' = "roundtrip"
    /\ padOut' = Pkcs7Unpad(padOut.data, padN)
    /\ UNCHANGED <<padN, padIn>>
    /\ UNCHANGED notPad

(***************************************************************************)
(* A block cipher instance: cipher/block.rs declares BlockEncrypt and      *)
(* BlockDecrypt; the modes are generic in them.  The instance used here is *)
(* a keyed permutation of blocks of any size whose decrypt inverts its     *)
(* encrypt: a byte substitution followed by a rotation of the positions.   *)
(***************************************************************************)
KeyByte(key, i) == key[1 + ((i - 1) % Len(key))]

SubByte(b, kb) == (Xor(b, kb) * 5 + 17) % 256

\* 5 * 205 = 1 (mod 256)
InvSubByte(c, kb) == Xor(((c + 256 - 17) * 205) % 256, kb)

BlockEncrypt(block, key) ==
    LET n == Len(block)
    IN  [i \in 1..n |-> SubByte(block[(i % n) + 1], KeyByte(key, i))]

BlockDecrypt(block, key) ==
    LET n == Len(block)
        src(j) == IF j = 1 THEN n ELSE j - 1
    IN  [j \in 1..n |-> InvSubByte(block[src(j)], KeyByte(key, src(j)))]

\* the i-th chunk (from 0) of data.chunks_mut(bs): the last one may be short
Chunk(data, bs, i) ==
    SubSeq(data, i * bs + 1, IF (i + 1) * bs < Len(data) THEN (i + 1) * bs ELSE Len(data))

NumChunks(data, bs) == (Len(data) + bs - 1) \div bs

(***************************************************************************)
(* ECB: cipher/block/modes/ecb.rs.  A loop over the chunks is the buffer   *)
(* after its first i iterations.                                           *)
(***************************************************************************)
RECURSIVE EcbEncryptLoop(_, _, _, _)
EcbEncryptLoop(data, key, bs, i) ==
    IF i = 0 THEN Ok(<<>>)
    ELSE LET before == EcbEncryptLoop(data, key, bs, i - 1)
             chunk == Chunk(data, bs, i - 1)
         IN  IF before.tag # "Ok" THEN before
             ELSE IF Len(chunk) # bs THEN Panic  \* chunk.try_into().unwrap()
             ELSE Ok(before.data \o BlockEncrypt(chunk, key))

EcbEncrypt(data, key, bs) ==
    LET padded == Pkcs7Pad(data, bs)
    IN  IF padded.tag # "Ok" THEN padded
        ELSE EcbEncryptLoop(padded.data, key, bs, NumChunks(padded.data, bs))

RECURSIVE EcbDecryptLoop(_, _, _, _)
EcbDecryptLoop(data, key, bs, i) ==
    IF i = 0 THEN Ok(<<>>)
    ELSE LET before == EcbDecryptLoop(data, key, bs, i - 1)
             chunk == Chunk(data, bs, i - 1)
         IN  IF before.tag # "Ok" THEN before
             ELSE IF Len(chunk) # bs THEN Panic
             ELSE Ok(before.data \o BlockDecrypt(chunk, key))

EcbDecrypt(data, key, bs) ==
    LET buf == EcbDecryptLoop(data, key, bs, NumChunks(data, bs))
    IN  IF buf.tag # "Ok" THEN buf
        ELSE Pkcs7Unpad(buf.data, bs)

(***************************************************************************)
(* CBC: cipher/block/modes/cbc.rs.  The loop state is the buffer and prev. *)
(***************************************************************************)
CbcState(t, d, p) == [tag |-> t, data |-> d, prev |-> p]

\* the encryption loop with prev never updated: every block chained on the IV
RECURSIVE CbcEncryptLoopFixedPrev(_, _, _, _, _)
CbcEncryptLoopFixedPrev(data, key, bs, iv, i) ==
    IF i = 0 THEN CbcState("Ok", <<>>, iv)
    ELSE LET before == CbcEncryptLoopFixedPrev(data, key, bs, iv, i - 1)
             chunk == Chunk(data, bs, i - 1)
         IN  IF before.tag # "Ok" THEN before
             ELSE IF Len(chunk) # bs THEN CbcState("Panic", <<>>, <<>>)
             ELSE LET block == XorInto(chunk, before.prev)
                      ciphertext == BlockEncrypt(block, key)
                  IN  CbcState("Ok", before.data \o ciphertext, before.prev)

RECURSIVE CbcEncryptLoop(_, _, _, _, _)
CbcEncryptLoop(data, key, bs, iv, i) ==
    IF i = 0 THEN CbcState("Ok", <<>>, iv)
    ELSE LET before == CbcEncryptLoop(data, key, bs, iv, i - 1)
             chunk == Chunk(data, bs, i - 1)
         IN  IF before.tag # "Ok" THEN before
             ELSE IF Len(chunk) # bs THEN CbcState("Panic", <<>>, <<>>)
             ELSE LET block == XorInto(chunk, before.prev)
                      ciphertext == BlockEncrypt(block, key)
                  \* chunk.copy_from_slice(ciphertext); prev = ciphertext
                  IN  CbcState("Ok", before.data \o ciphertext, ciphertext)

CbcEncrypt(data, key, bs, iv) ==
    LET padded == Pkcs7Pad(data, bs)
    IN  IF padded.tag # "Ok" THEN padded
        ELSE LET r == CbcEncryptLoop(padded.data, key, bs, iv, NumChunks(padded.data, bs))
             IN  IF r.tag # "Ok" THEN Panic ELSE Ok(r.data)

\* the decryption loop chaining on the previous plaintext block
RECURSIVE CbcDecryptLoopPrevPlain(_, _, _, _, _)
CbcDecryptLoopPrevPlain(data, key, bs, iv, i) ==
    IF i = 0 THEN CbcState("Ok", <<>>, iv)
    ELSE LET before == CbcDecryptLoopPrevPlain(data, key, bs, iv, i - 1)
             chunk == Chunk(data, bs, i - 1)
         IN  IF before.tag # "Ok" THEN before
             ELSE IF Len(chunk) # bs THEN CbcState("Panic", <<>>, <<>>)
             ELSE LET plaintext == XorInto(BlockDecrypt(chunk, key), before.prev)
                  IN  CbcState("Ok", before.data \o plaintext, plaintext)

RECURSIVE CbcDecryptLoop(_, _, _, _, _)
CbcDecryptLoop(data, key, bs, iv, i) ==
    IF i = 0 THEN CbcState("Ok", <<>>, iv)
    ELSE LET before == CbcDecryptLoop(data, key, bs, iv, i - 1)
             chunk == Chunk(data, bs, i - 1)
         IN  IF before.tag # "Ok" THEN before
             ELSE IF Len(chunk) # bs THEN CbcState("Panic", <<>>, <<>>)
             ELSE LET plaintext == XorInto(BlockDecrypt(chunk, key), before.prev)
                  \* chunk.copy_from_slice(plaintext); prev = block
                  IN  CbcState("Ok", before.data \o plaintext, chunk)

CbcDecrypt(data, key, bs, iv) ==
    LET r == CbcDecryptLoop(data, key, bs, iv, NumChunks(data, bs))
    IN  IF r.tag # "Ok" THEN Panic
        ELSE Pkcs7Unpad(r.data, bs)

(***************************************************************************)
(* One-time pad: cipher/onetimepad.rs                                      *)
(***************************************************************************)
\* the key iterator is given as the finite sequence of bytes it can yield
OneTimePadCipher(data, key) ==
    IF Len(key) < Len(data) THEN Err("KeyTooShort")
    ELSE Ok([i \in 1..Len(data) |-> Xor(data[i], key[i])])

(***************************************************************************)
(* CTR: cipher/block/modes/ctr.rs.  A u64 is four 16-bit limbs, least      *)
(* significant first.                                                      *)
(***************************************************************************)
\* size_of_val(&nonce)
CounterBytes == 8

Limb == 65536

U64Zero == <<0, 0, 0, 0>>
U64Max == <<65535, 65535, 65535, 65535>>

\* u64::wrapping_add(1)
WrappingAdd1(u) ==
    LET c1 == (u[1] + 1) \div Limb
        c2 == (u[2] + c1) \div Limb
        c3 == (u[3] + c2) \div Limb
    IN  <<(u[1] + 1) % Limb, (u[2] + c1) % Limb, (u[3] + c2) % Limb, (u[4] + c3) % Limb>>

\* an increment that saturates at u64::MAX instead of wrapping
SaturatingAdd1(u) == IF u = U64Max THEN u ELSE WrappingAdd1(u)

\* the successor function of the block counter
NextCounter(u) == WrappingAdd1(u)

\* u64::to_le_bytes
U64ToLeBytes(u) ==
    [i \in 1..CounterBytes |->
        LET limb == u[(i + 1) \div 2]
        IN  IF i % 2 = 1 THEN limb % 256 ELSE limb \div 256]

\* Enc::EncryptionBlock::default() with the counter bytes zipped in
CtrBlock(ctr, bs) ==
    LET le == U64ToLeBytes(ctr)
    IN  [i \in 1..bs |-> IF i <= CounterBytes THEN le[i] ELSE 0]

\* the first count bytes of keystream(enc, key, nonce): flat_map is lazy, a
\* block is only encrypted when one of its bytes is drawn
RECURSIVE keystream(_, _, _, _)
keystream(key, ctr, bs, count) ==
    IF count = 0 THEN <<>>
    ELSE LET block == BlockEncrypt(CtrBlock(ctr, bs), key)
         IN  IF count <= bs THEN SubSeq(block, 1, count)
             ELSE block \o keystream(key, NextCounter(ctr), bs, count - bs)

\* Ctr::new
CtrNew(bs) == IF bs < CounterBytes THEN "BlockSizeTooSmall" ELSE "Ok"

CtrEncrypt(data, key, bs, nonce) ==
    LET r == OneTimePadCipher(data, keystream(key, nonce, bs, Len(data)))
    IN  IF r.tag # "Ok" THEN Panic  \* .expect("infinite keystream")
        ELSE r

CtrDecrypt(data, key, bs, nonce) ==
    LET r == OneTimePadCipher(data, keystream(key, nonce, bs, Len(data)))
    IN  IF r.tag # "Ok" THEN Panic
        ELSE r

(***************************************************************************)
(* The block modes as a state machine: a cipher object is constructed      *)
(* (Ecb::new, Cbc::new, Ctr::new), encrypts a plaintext under a key and    *)
(* decrypts either the ciphertext it produced or a foreign buffer.         *)
(***************************************************************************)
CipherByteSample == {0, 2, 255}

Plaintexts ==
    SeqsUpTo(CipherByteSample, MaxLen)
        \cup {Pattern(len, 3) : len \in (MaxLen + 1)..MaxLongLen}

Keys == {<<0>>, <<77, 200>>}

IVs(bs) == {Repeat(0, bs), Pattern(bs, 200)}

Nonces == {U64Zero, <<1, 0, 0, 0>>, <<255, 0, 0, 0>>, <<65535, 0, 0, 0>>,
           <<65534, 65535, 65535, 65535>>, U64Max}

CtrBlockSizes == {CounterBytes - 1, CounterBytes, CounterBytes + 1}

CipherIdle ==
    /\ cpc = "idle" /\ cmode = "none" /\ cbs = 0 /\ civ = <<>>
    /\ cnonce = U64Zero /\ ckey = <<>> /\ cplain = <<>>
    /\ ccipher = None /\ cdec = None

CipherInit ==
    /\ ckey = <<>> /\ cplain = <<>> /\ ccipher = None /\ cdec = None
    /\ \/ /\ cmode = "ecb"
          /\ cbs \in 1..MaxBlock
          /\ civ = <<>> /\ cnonce = U64Zero
          /\ cpc = "ready"
       \/ /\ cmode = "cbc"
          /\ cbs \in 1..MaxBlock
          /\ civ \in IVs(cbs)
          /\ cnonce = U64Zero
          /\ cpc = "ready"
       \/ /\ cmode = "ctr"
          /\ cbs \in CtrBlockSizes
          /\ civ = <<>>
          /\ cnonce \in Nonces
          /\ cpc = IF CtrNew(cbs) = "Ok" THEN "ready" ELSE "rejected"

EcbEncryptCall ==
    /\ cpc = "ready" /\ cmode = "ecb"
    /\ \E data \in Plaintexts, key \in Keys :
        /\ cplain' = data
        /\ ckey' = key
        /\ ccipher' = EcbEncrypt(data, key, cbs)
    /\ cpc' = "encrypted"
    /\ UNCHANGED <<cmode, cbs, civ, cnonce, cdec>>
    /\ UNCHANGED notCipher

EcbDecryptCall ==
    /\ cmode = "ecb"
    /\ \/ /\ cpc = "encrypted" /\ ccipher.tag = "Ok"
          /\ cdec' = EcbDecrypt(ccipher.data, ckey, cbs)
          /\ cpc' = "decrypted"
          /\ UNCHANGED <<ckey, ccipher>>
       \/ /\ cpc = "ready"
          /\ \E data \in Plaintexts, key \in Keys :
              /\ ckey' = key
              /\ ccipher' = Ok(data)
              /\ cdec' = EcbDecrypt(data, key, cbs)
          /\ cpc' = "foreign"
    /\ UNCHANGED <<cmode, cbs, civ, cnonce, cplain>>
    /\ UNCHANGED notCipher

CbcEncryptCall ==
    /\ cpc = "ready" /\ cmode = "cbc"
    /\ \E data \in Plaintexts, key \in Keys :
        /\ cplain' = data
        /\ ckey' = key
        /\ ccipher' = CbcEncrypt(data, key, cbs, civ)
    /\ cpc' = "encrypted"
    /\ UNCHANGED <<cmode, cbs, civ, cnonce, cdec>>
    /\ UNCHANGED notCipher

CbcDecryptCall ==
    /\ cmode = "cbc"
    /\ \/ /\ cpc = "encrypted" /\ ccipher.tag = "Ok"
          /\ cdec' = CbcDecrypt(ccipher.data, ckey, cbs, civ)
          /\ cpc' = "decrypted"
          /\ UNCHANGED <<ckey, ccipher>>
       \/ /\ cpc = "ready"
          /\ \E data \in Plaintexts, key \in Keys :
              /\ ckey' = key
              /\ ccipher' = Ok(data)
              /\ cdec' = CbcDecrypt(data, key, cbs, civ)
          /\ cpc' = "foreign"
    /\ UNCHANGED <<cmode, cbs, civ, cnonce, cplain>>
    /\ UNCHANGED notCipher

CtrEncryptCall ==
    /\ cpc = "ready" /\ cmode = "ctr"
    /\ \E data \in Plaintexts, key \in Keys :
        /\ cplain' = data
        /\ ckey' = key
        /\ ccipher' = CtrEncrypt(data, key, cbs, cnonce)
    /\ cpc' = "encrypted"
    /\ UNCHANGED <<cmode, cbs, civ, cnonce, cdec>>
    /\ UNCHANGED notCipher

CtrDecryptCall ==
    /\ cmode = "ctr"
    /\ \/ /\ cpc = "encrypted" /\ ccipher.tag = "Ok"
          /\ cdec' = CtrDecrypt(ccipher.data, ckey, cbs, cnonce)
          /\ cpc' = "decrypted"
          /\ UNCHANGED <<ckey, ccipher>>
       \/ /\ cpc = "ready"
          /\ \E data \in Plaintexts, key \in Keys :
              /\ ckey' = key
              /\ ccipher' = Ok(data)
              /\ cdec' = CtrDecrypt(data, key, cbs, cnonce)
          /\ cpc' = "foreign"
    /\ UNCHANGED <<cmode, cbs, civ, cnonce, cplain>>
    /\ UNCHANGED notCipher

(***************************************************************************)
(* Num: pubkey/ecc/num.rs.  The source keeps a number in four 64-bit       *)
(* words; the model keeps the value and the width, scaled to one byte, so  *)
(* that carries, borrows and truncation happen where the code has them.    *)
(* A failed assertion or unwrap yields NumPanic.                           *)
(***************************************************************************)
\* Num::BITS, scaled
NumBits == 8
\* Num::BYTES
NumBytes == NumBits \div 8

\* 1 << n
Pow2N(n) ==
    <<1, 2, 4, 8, 16, 32, 64, 128, 256, 512, 1024, 2048, 4096, 8192, 16384,
      32768, 65536, 131072, 262144, 524288, 1048576>>[n + 1]

NumMod == Pow2N(NumBits)
Num == 0..(NumMod - 1)

NumPanic == -1

\* get_bit(n, i)
GetBit(n, i) == (n \div Pow2N(i)) % 2 = 1

\* add(a, b): the sum in the same width and the carry flag
AddCarry(a, b) == [val |-> (a + b) % NumMod, carry |-> (a + b) >= NumMod]

\* sub(a, b): the difference in the same width and the borrow flag
SubBorrow(a, b) == [val |-> (a - b + NumMod) % NumMod, borrow |-> a < b]

\* div(n, d) on numbers of the given width: binary long division, the
\* running remainder is shifted left within the width
RECURSIVE DivLoop(_, _, _, _)
DivLoop(n, d, bits, i) ==
    IF i = bits THEN [q |-> 0, r |-> 0]
    ELSE LET before == DivLoop(n, d, bits, i + 1)
             shifted == ((2 * before.r) % Pow2N(bits)) + (IF GetBit(n, i) THEN 1 ELSE 0)
         IN  IF shifted >= d
             THEN [q |-> before.q + Pow2N(i), r |-> shifted - d]
             ELSE [q |-> before.q, r |-> shifted]

Div(n, d, bits) == DivLoop(n, d, bits, 0)

\* reduce(n, p) for n of the given width
Reduce(n, p, bits) == Div(n, p, bits).r

\* Num::add
NumAdd(a, n, p) ==
    IF a < 0 \/ n < 0 THEN NumPanic
    ELSE LET r == AddCarry(a, n)
         IN  IF r.carry THEN Reduce(r.val + NumMod, p, NumBits + NumBits \div 4)
             ELSE Reduce(r.val, p, NumBits)

\* Num::sub
NumSub(a, n, p) ==
    IF a < 0 \/ n < 0 THEN NumPanic
    ELSE LET r == SubBorrow(a, n)
         IN  IF r.borrow
             THEN LET t == AddCarry(r.val, p)
                  IN  IF t.carry THEN t.val ELSE NumPanic  \* assert!(carry.0)
             ELSE r.val

\* Num::mul
NumMul(a, n, p) ==
    IF a < 0 \/ n < 0 THEN NumPanic
    ELSE Reduce(a * n, p, 2 * NumBits)

\* Num::eq
NumEqUnreduced(a, n, p) == a = n

NumEq(a, n, p) == Reduce(a, p, NumBits) = Reduce(n, p, NumBits)

\* Num::reduce
NumReduce(a, p) == IF a < 0 THEN NumPanic ELSE Reduce(a, p, NumBits)

\* the loop of Num::inv
RECURSIVE InvLoop(_, _, _, _, _)
InvLoop(u, v, x1, x2, p) ==
    IF u = 0 THEN x2
    ELSE LET d == Div(v, u, NumBits)
             x == NumSub(x2, NumMul(d.q, x1, p), p)
         IN  IF x < 0 THEN NumPanic
             ELSE InvLoop(d.r, u, x, x1, p)

\* Num::inv: NumNone stands for Option::None
NumNone == -2
NumInv(a, p) ==
    IF a < 0 THEN NumPanic
    ELSE IF a = 0 THEN NumNone
    ELSE InvLoop(Reduce(a, p, NumBits), p, 1, 0, p)

\* Num::to_le_bytes and Num::from_le_bytes
NumToLeBytes(n) == [i \in 1..NumBytes |-> (n \div Pow2N(8 * (i - 1))) % 256]

RECURSIVE NumFromLeBytes(_)
NumFromLeBytes(b) ==
    IF Len(b) = 0 THEN 0
    ELSE b[1] + 256 * NumFromLeBytes(SubSeq(b, 2, Len(b)))

\* resize(num): the first r bytes, zero-extended
Resize(b, r) == [i \in 1..r |-> IF i <= Len(b) THEN b[i] ELSE 0]

(***************************************************************************)
(* Curves and points: pubkey/ecc.rs, pubkey/ecc/secp256k1.rs.  The curves  *)
(* of the model have the shape of secp256k1 (a = 0, b = 7, prime order     *)
(* below the field prime) over small fields.                               *)
(***************************************************************************)
Infinity == [kind |-> "Infinity", x |-> 0, y |-> 0]
Finite(x, y) == [kind |-> "Finite", x |-> x, y |-> y]
PointPanic == [kind |-> "Panic", x |-> 0, y |-> 0]

Curve13 == [P |-> 13, N |-> 7, A |-> 0, B |-> 7, G |-> Finite(7, 5), SIZE |-> 1]
Curve43 == [P |-> 43, N |-> 31, A |-> 0, B |-> 7, G |-> Finite(2, 12), SIZE |-> 1]
Curves == {Curve13, Curve43}

\* the check of Point::new
OnCurve(c, x, y) ==
    LET y2 == NumMul(y, y, c.P)
        x3 == NumMul(NumMul(x, x, c.P), x, c.P)
        ax == NumMul(c.A, x, c.P)
    IN  y2 = NumAdd(NumAdd(x3, ax, c.P), c.B, c.P)

\* Point::new(x, y).unwrap()
PointNewUnwrap(c, x, y) ==
    IF x < 0 \/ y < 0 THEN PointPanic
    ELSE IF OnCurve(c, x, y) THEN Finite(x, y)
    ELSE PointPanic

\* add, from the abscissa x of the sum on: s, the ordinate and the checked
\* constructor
PointAddFromX(c, h, x, x1, y1) ==
    PointNewUnwrap(c, x, NumSub(NumMul(h, NumSub(x1, x, c.P), c.P), y1, c.P))

\* add, doubling arm, from the slope h on
PointDoubleFromSlope(c, h, x1, y1) ==
    PointAddFromX(c, h, NumSub(NumMul(h, h, c.P), NumMul(2, x1, c.P), c.P),
                  x1, y1)

\* add, doubling arm, from the inverse of 2 * y1 on
PointDoubleFromInv(c, inv, x1, y1) ==
    IF inv = NumNone THEN Infinity
    ELSE PointDoubleFromSlope(
             c, NumMul(NumMul(NumMul(3, x1, c.P), x1, c.P), inv, c.P), x1, y1)

\* add, regular arm, from the slope h on
PointChordFromSlope(c, h, x1, y1, x2) ==
    PointAddFromX(c, h,
                  NumSub(NumSub(NumMul(h, h, c.P), x1, c.P), x2, c.P), x1, y1)

\* add, regular arm, from the inverse of x2 - x1 on
PointChordFromInv(c, inv, x1, y1, x2, y2) ==
    IF inv = NumNone THEN Infinity
    ELSE PointChordFromSlope(
             c, NumMul(NumSub(y2, y1, c.P), inv, c.P), x1, y1, x2)

\* impl ops::Add for Point
PointAdd(c, p1, p2) ==
    IF p1.kind = "Panic" \/ p2.kind = "Panic" THEN PointPanic
    ELSE IF p1.kind = "Infinity" THEN p2
    ELSE IF p2.kind = "Infinity" THEN p1
    ELSE IF p1.x = p2.x /\ p1.y = p2.y
    THEN PointDoubleFromInv(c, NumInv(NumMul(2, p1.y, c.P), c.P), p1.x, p1.y)
    ELSE PointChordFromInv(c, NumInv(NumSub(p2.x, p1.x, c.P), c.P),
                           p1.x, p1.y, p2.x, p2.y)

\* a function with its values computed once
Tabulated(f) == f @@ <<>>

\* the points Point::new accepts with reduced coordinates, the point at
\* infinity, and the outcome of an aborted computation
PointsOf(c) ==
    {Infinity, PointPanic}
    \cup {Finite(xy[1], xy[2]) :
            xy \in {xy \in (0..(c.P - 1)) \X (0..(c.P - 1)) :
                       OnCurve(c, xy[1], xy[2])}}

CurvePoints == Tabulated([c \in Curves |-> PointsOf(c)])

\* the values of PointAdd on the points of each curve
AddTable ==
    Tabulated([c \in Curves |->
        Tabulated([pq \in CurvePoints[c] \X CurvePoints[c] |->
                      PointAdd(c, pq[1], pq[2])])])

\* p1 + p2, for points of the curve
PointSum(c, p1, p2) == AddTable[c][<<p1, p2>>]

\* Point::scale: the accumulator and the running double after the first i
\* iterations of the loop
RECURSIVE ScaleLoop(_, _, _, _)
ScaleLoop(c, pt, n, i) ==
    IF i = 0 THEN [result |-> Infinity, s |-> pt]
    ELSE LET before == ScaleLoop(c, pt, n, i - 1)
         IN  [result |-> IF GetBit(n, i - 1)
                         THEN PointSum(c, before.result, before.s)
                         ELSE before.result,
              s |-> PointSum(c, before.s, before.s)]

\* n * pt
Scale(c, pt, n) == IF n < 0 THEN PointPanic ELSE ScaleLoop(c, pt, n, NumBits).result

(***************************************************************************)
(* Hash: hash.rs.  The signature schemes are generic over the hash; the    *)
(* model instantiates it with a family of small mixing functions selected  *)
(* by hsel, with a digest of DigestSize bytes.                             *)
(***************************************************************************)
DigestSize == 2

HashSeeds == {3, 11}

RECURSIVE HashAcc(_, _, _)
HashAcc(seed, data, i) ==
    IF i = 0 THEN (seed * 257 + 1) % 65536
    ELSE ((HashAcc(seed, data, i - 1) + data[i] + 1) * 167 + seed) % 65536

\* Hash::hash
Hash(seed, data) ==
    LET h == (HashAcc(seed, data, Len(data)) * 25173 + 13849) % 65536
    IN  <<(h \div 256) % 256, h % 256>>

\* Num::from_le_bytes(resize(hash(data)))
HashNum(seed, data) == NumFromLeBytes(Resize(Hash(seed, data), NumBytes))

(***************************************************************************)
(* ECDSA: pubkey/ecc/ecdsa.rs                                              *)
(***************************************************************************)
NoKey == NumNone
NoPoint == [kind |-> "None", x |-> 0, y |-> 0]
Signature(r, s) == [r |-> r, s |-> s]
NoSig == Signature(NumNone, NumNone)

\* PrivateKey::new
PrivateKeyNew(c, n) == IF n < c.N THEN Ok(n) ELSE Err("InvalidPrivateKey")

\* PublicKey::new
PublicKeyNew(p) == p

\* PublicKey::derive
Derive(c, key) == Scale(c, c.G, key)

\* Signature::new
SignatureNew(c, r, s) ==
    IF r < c.N /\ s < c.N THEN Ok(Signature(r, s)) ELSE Err("InvalidSignature")

\* sign, before the loop: the message digest e and the seed of the nonce
SignSeedNoKey(seed, key, msg) == HashNum(seed, msg)

SignSeed(seed, key, msg) == HashNum(seed, msg \o NumToLeBytes(key))

\* sign, the two statements computing s; the inverse is unwrapped
SignSNoKey(c, e, r, key, k) ==
    LET kinv == NumInv(k, c.N)
    IN  IF kinv < 0 THEN NumPanic ELSE NumMul(kinv, e, c.N)

SignS(c, e, r, key, k) ==
    LET kinv == NumInv(k, c.N)
    IN  IF kinv < 0 THEN NumPanic
        ELSE NumMul(kinv, NumAdd(e, NumMul(r, key, c.N), c.N), c.N)

\* sign, the end of a loop iteration: s = 0 is tried again
SignFinish(k, r, s) ==
    IF s < 0 THEN [k |-> k, outcome |-> "panic", sig |-> NoSig]
    ELSE IF s = 0 THEN [k |-> k, outcome |-> "retry", sig |-> NoSig]
    ELSE [k |-> k, outcome |-> "signed", sig |-> Signature(r, s)]

\* sign, a loop iteration from R = k * G on: infinity is tried again, r is
\* the x coordinate as it is
SignWithPoint(c, e, key, k, R) ==
    IF R.kind = "Panic" THEN [k |-> k, outcome |-> "panic", sig |-> NoSig]
    ELSE IF R.kind = "Infinity"
    THEN [k |-> k, outcome |-> "retry", sig |-> NoSig]
    ELSE SignFinish(k, R.x, SignS(c, e, R.x, key, k))

\* sign, a loop iteration with the nonce k
SignWithNonce(c, e, key, k) == SignWithPoint(c, e, key, k, Scale(c, c.G, k))

\* sign, one iteration of the 'retry loop entered with nonce k0
SignStep(c, seed, key, msg, k0) ==
    SignWithNonce(c, HashNum(seed, msg), key, HashNum(seed, NumToLeBytes(k0)))

\* verify, the match on the coordinates of R
VerifyPoint(c, R, r) ==
    IF R.kind = "Panic" THEN "Panic"
    ELSE IF R.kind = "Finite"
    THEN IF NumEq(R.x, r, c.N) THEN "Ok" ELSE "InvalidSignature"
    ELSE "InvalidSignature"

\* verify, from the unwrapped inverse i of s on
VerifyWithInv(c, e, i, key, sg) ==
    IF i < 0 THEN "Panic"  \* unwrap of None
    ELSE VerifyPoint(c, PointSum(c, Scale(c, c.G, NumMul(e, i, c.N)),
                                    Scale(c, key, NumMul(sg.r, i, c.N))),
                     sg.r)

\* verify
Verify(c, seed, key, msg, sg) ==
    VerifyWithInv(c, HashNum(seed, msg), NumInv(sg.s, c.N), key, sg)

(***************************************************************************)
(* The ECDSA state machine: a private key is built, its public key         *)
(* derived, a message signed one loop iteration at a time, and then a      *)
(* signature and a public key are presented to verify.                     *)
(***************************************************************************)
\* most iterations of the signing loop that are followed
MaxAttempts == 4

\* numbers offered to PrivateKey::new
KeyCandidates(c) ==
    IF c.N < 8 THEN 0..(c.N + 1)
    ELSE {0, 1, 2, c.N \div 2, c.N - 1, c.N, c.N + 1, NumMod - 1}

\* numbers offered to Signature::new
SigCandidates(c) == 0..c.N

Msgs == {<<>>, <<1>>, <<2, 3>>}

\* no multisig session
MultiIdle ==
    /\ mkeys = <<>> /\ mlocal = <<>> /\ mcommit = <<>> /\ mreveal = <<>>
    /\ mrand = <<>> /\ msigned = {}

SigIdle ==
    /\ spc = "idle" /\ curve = Curve13 /\ hsel = 0 /\ keyIn = NoKey
    /\ skey = NoKey /\ pkey = NoPoint /\ smsg = <<>> /\ snonce = 0
    /\ sattempts = 0 /\ sig = NoSig /\ vkey = NoPoint /\ vsig = NoSig
    /\ vres = "none"
    /\ MultiIdle

SigInit ==
    /\ spc = "new" /\ curve \in Curves /\ hsel \in HashSeeds /\ keyIn = NoKey
    /\ skey = NoKey /\ pkey = NoPoint /\ smsg = <<>> /\ snonce = 0
    /\ sattempts = 0 /\ sig = NoSig /\ vkey = NoPoint /\ vsig = NoSig
    /\ vres = "none"
    /\ MultiIdle

PrivateKeyNewCall ==
    /\ spc = "new"
    /\ \E n \in KeyCandidates(curve) :
          LET res == PrivateKeyNew(curve, n)
          IN  /\ keyIn' = n
              /\ skey' = IF res.tag = "Ok" THEN res.data ELSE NoKey
              /\ spc' = IF res.tag = "Ok" THEN "keyed" ELSE "invalidkey"
    /\ UNCHANGED <<curve, hsel, pkey, smsg, snonce, sattempts, sig, vkey, vsig, vres>>
    /\ UNCHANGED notSig

DeriveCall ==
    /\ spc = "keyed"
    /\ pkey' = Derive(curve, skey)
    /\ spc' = "derived"
    /\ UNCHANGED <<curve, hsel, keyIn, skey, smsg, snonce, sattempts, sig, vkey, vsig, vres>>
    /\ UNCHANGED notSig

\* sign up to the loop
SignBegin ==
    /\ spc = "derived"
    /\ \E m \in Msgs :
          /\ smsg' = m
          /\ snonce' = SignSeed(hsel, skey, m)
    /\ sattempts' = 0
    /\ spc' = "signing"
    /\ UNCHANGED <<curve, hsel, keyIn, skey, pkey, sig, vkey, vsig, vres>>
    /\ UNCHANGED notSig

\* one iteration of the loop of sign
SignAttempt ==
    /\ spc = "signing"
    /\ sattempts < MaxAttempts
    /\ \E step \in {SignStep(curve, hsel, skey, smsg, snonce)} :
           /\ snonce' = step.k
           /\ sig' = step.sig
           /\ spc' = CASE step.outcome = "signed" -> "signed"
                       [] step.outcome = "retry" -> "signing"
                       [] OTHER -> "signpanic"
    /\ sattempts' = sattempts + 1
    /\ UNCHANGED <<curve, hsel, keyIn, skey, pkey, smsg, vkey, vsig, vres>>
    /\ UNCHANGED notSig

\* a signature built with Signature::new is presented with the signer's key
SignatureNewCall ==
    /\ spc = "signed"
    /\ \E r \in SigCandidates(curve), s \in SigCandidates(curve) :
          LET res == SignatureNew(curve, r, s)
          IN  /\ vsig' = IF res.tag = "Ok" THEN res.data ELSE NoSig
              /\ vkey' = IF res.tag = "Ok" THEN pkey ELSE NoPoint
              /\ spc' = IF res.tag = "Ok" THEN "presented" ELSE "invalidsig"
    /\ UNCHANGED <<curve, hsel, keyIn, skey, pkey, smsg, snonce, sattempts, sig, vres>>
    /\ UNCHANGED notSig

\* a public key built with PublicKey::new is presented with the signature
\* that sign returned
PublicKeyNewCall ==
    /\ spc = "signed"
    /\ \E p \in CurvePoints[curve] \ {PointPanic} :
          vkey' = PublicKeyNew(p)
    /\ vsig' = sig
    /\ spc' = "presented"
    /\ UNCHANGED <<curve, hsel, keyIn, skey, pkey, smsg, snonce, sattempts, sig, vres>>
    /\ UNCHANGED notSig

VerifyCall ==
    /\ spc = "presented"
    /\ vres' = Verify(curve, hsel, vkey, smsg, vsig)
    /\ spc' = "verified"
    /\ UNCHANGED <<curve, hsel, keyIn, skey, pkey, smsg, snonce, sattempts, sig, vkey, vsig>>
    /\ UNCHANGED notSig

(***************************************************************************)
(* Schnorr: pubkey/ecc/schnorr.rs.  The scheme uses the variables of the   *)
(* signature machine.  A private key is a number p with 0 < p < N and its  *)
(* public key the finite point p * G; the nonce is whatever the generator  *)
(* delivers, any value of Num.                                             *)
(***************************************************************************)
SchnorrSignature(s, e) == [s |-> s, e |-> e]

\* SchnorrSignature::new
SchnorrSignatureNew(c, s, e) ==
    IF s < c.N /\ e < c.N THEN Ok(SchnorrSignature(s, e))
    ELSE Err("InvalidSignature")

\* the hash of P.x followed by r followed by the message, as a number
SchnorrChallenge(seed, P, r, msg) ==
    HashNum(seed, NumToLeBytes(P.x) \o NumToLeBytes(r) \o msg)

\* sign: s = k - p * e
SchnorrSAdd(c, k, key, e) == NumAdd(k, NumMul(key, e, c.N), c.N)

SchnorrS(c, k, key, e) == NumSub(k, NumMul(key, e, c.N), c.N)

\* sign, a loop iteration from e on
SchnorrSignWithE(c, k, key, e) ==
    [outcome |-> IF SchnorrS(c, k, key, e) < 0 THEN "panic" ELSE "signed",
     sig |-> SchnorrSignature(SchnorrS(c, k, key, e), e)]

\* sign, a loop iteration from R = k * G on: infinity is tried again
SchnorrSignWithPoint(c, seed, key, P, msg, k, R) ==
    IF R.kind = "Panic" \/ P.kind # "Finite"
    THEN [outcome |-> "panic", sig |-> NoSig]
    ELSE IF R.kind = "Infinity" THEN [outcome |-> "retry", sig |-> NoSig]
    ELSE SchnorrSignWithE(
             c, k, key, NumReduce(SchnorrChallenge(seed, P, R.x, msg), c.N))

\* sign, one iteration of the 'retry loop with the draw k
SchnorrSignStep(c, seed, key, msg, k) ==
    SchnorrSignWithPoint(c, seed, key, Derive(c, key), msg, k,
                         Scale(c, c.G, k))

\* verify, the match on the coordinates of s * G + e * P
SchnorrVerifyPoint(c, seed, P, msg, sg, R) ==
    IF R.kind = "Panic" THEN "Panic"
    ELSE IF R.kind = "Infinity" THEN "InvalidSignature"
    ELSE IF NumEq(SchnorrChallenge(seed, P, R.x, msg), sg.e, c.N) THEN "Ok"
    ELSE "InvalidSignature"

\* verify
SchnorrVerify(c, seed, P, msg, sg) ==
    SchnorrVerifyPoint(c, seed, P, msg, sg,
                       PointSum(c, Scale(c, c.G, sg.s), Scale(c, P, sg.e)))

\* most draws of a nonce that are followed in one call of sign
MaxDraws == 2

\* private keys signed with
SchnorrKeys(c) ==
    IF c.N < 8 THEN 1..(c.N - 1) ELSE {1, 2, c.N \div 2, c.N - 1}

SchnorrInit ==
    /\ spc = "schnorr" /\ curve \in Curves /\ hsel \in HashSeeds
    /\ keyIn = NoKey /\ skey = NoKey /\ pkey = NoPoint /\ smsg = <<>>
    /\ snonce = 0 /\ sattempts = 0 /\ sig = NoSig /\ vkey = NoPoint
    /\ vsig = NoSig /\ vres = "none"
    /\ MultiIdle

\* sign up to the loop: the public key is derived
SchnorrSignBegin ==
    /\ spc = "schnorr"
    /\ \E p \in SchnorrKeys(curve), m \in Msgs :
          /\ skey' = p
          /\ pkey' = Derive(curve, p)
          /\ smsg' = m
    /\ spc' = "drawing"
    /\ UNCHANGED <<curve, hsel, keyIn, snonce, sattempts, sig, vkey, vsig, vres>>
    /\ UNCHANGED notSig

\* one iteration of the loop of sign: a nonce is drawn from the generator
SchnorrSignAttempt ==
    /\ spc = "drawing"
    /\ sattempts < MaxDraws
    /\ \E k \in Num :
          \E step \in {SchnorrSignStep(curve, hsel, skey, smsg, k)} :
              /\ snonce' = IF step.outcome = "retry" THEN snonce ELSE k
              /\ sig' = step.sig
              /\ spc' = CASE step.outcome = "signed" -> "schnorrsigned"
                          [] step.outcome = "retry" -> "drawing"
                          [] OTHER -> "signpanic"
    /\ sattempts' = sattempts + 1
    /\ UNCHANGED <<curve, hsel, keyIn, skey, pkey, smsg, vkey, vsig, vres>>
    /\ UNCHANGED notSig

\* verify, called with the signer's public key and the signature returned
SchnorrVerifyCall ==
    /\ spc = "schnorrsigned"
    /\ vkey' = pkey
    /\ vsig' = sig
    /\ vres' = SchnorrVerify(curve, hsel, pkey, smsg, sig)
    /\ spc' = "schnorrverified"
    /\ UNCHANGED <<curve, hsel, keyIn, skey, pkey, smsg, snonce, sattempts, sig>>
    /\ UNCHANGED notSig

\* SchnorrSignature::new on a pair of numbers; sig keeps the pair offered
SchnorrSignatureNewCall ==
    /\ spc = "schnorr"
    /\ \E s \in 0..(curve.N + 1), e \in 0..(curve.N + 1) :
          \E res \in {SchnorrSignatureNew(curve, s, e)} :
              /\ sig' = SchnorrSignature(s, e)
              /\ vsig' = IF res.tag = "Ok" THEN res.data ELSE NoSig
              /\ spc' = IF res.tag = "Ok" THEN "schnorrbuilt" ELSE "invalidsig"
    /\ UNCHANGED <<curve, hsel, keyIn, skey, pkey, smsg, snonce, sattempts, vkey, vres>>
    /\ UNCHANGED notSig


(***************************************************************************)
(* Schnorr multisignatures: pubkey/ecc/schnorr/multisig.rs.  A session has *)
(* the signers 1..Len(mkeys); signer i holds the private key mkeys[i] and  *)
(* the number mlocal[i], publishes the commitment mcommit[i] and reveals   *)
(* the point mreveal[i].  mrand[i] is what SchnorrRandomness::new returned *)
(* to signer i, msigned the signers that called sign on the running        *)
(* signature sig.                                                          *)
(***************************************************************************)
\* Default for SchnorrSignature
SchnorrSignatureDefault == SchnorrSignature(0, 0)

\* ecc::PublicKey::new(p).unwrap()
EccPublicKeyNewUnwrap(p) == IF p.kind = "Finite" THEN p ELSE PointPanic

\* encode, the fold: the sum modulo N of the x coordinates of pks[1..i]
RECURSIVE EncodeSum(_, _, _)
EncodeSum(c, pks, i) ==
    IF i = 0 THEN 0 ELSE NumAdd(EncodeSum(c, pks, i - 1), pks[i].x, c.N)

\* encode of the first key alone
EncodeOfFirst(c, pks) ==
    NumToLeBytes(EncodeSum(c, pks, IF Len(pks) = 0 THEN 0 ELSE 1))

\* encode
Encode(c, pks) == NumToLeBytes(EncodeSum(c, pks, Len(pks)))

\* h_agg
HAgg(c, seed, pks, P) ==
    NumReduce(HashNum(seed, Encode(c, pks) \o NumToLeBytes(P.x)), c.N)

\* combine, the map and the reduce over pks[1..i], i > 0
RECURSIVE CombineSum(_, _, _, _)
CombineSum(c, seed, pks, i) ==
    IF i = 1 THEN Scale(c, pks[1], HAgg(c, seed, pks, pks[1]))
    ELSE PointSum(c, CombineSum(c, seed, pks, i - 1),
                  Scale(c, pks[i], HAgg(c, seed, pks, pks[i])))

\* combine: reduce of no keys is None, which unwrap aborts on
Combine(c, seed, pks) ==
    IF Len(pks) = 0 THEN PointPanic
    ELSE EccPublicKeyNewUnwrap(CombineSum(c, seed, pks, Len(pks)))

\* h_sig from the combined key on
HSigWithKey(c, seed, X, total, msg) ==
    IF X.kind = "Panic" THEN NumPanic
    ELSE NumReduce(
             HashNum(seed, NumToLeBytes(X.x) \o NumToLeBytes(total) \o msg),
             c.N)

\* h_sig
HSig(c, seed, pks, total, msg) ==
    HSigWithKey(c, seed, Combine(c, seed, pks), total, msg)

\* SchnorrRandomness::new, the fold: local * G plus others[1..i]
RECURSIVE RandomnessSum(_, _, _, _)
RandomnessSum(c, local, others, i) ==
    IF i = 0 THEN Scale(c, c.G, local)
    ELSE PointSum(c, RandomnessSum(c, local, others, i - 1), others[i])

\* SchnorrRandomness::new, the match on the coordinates of the total
SchnorrRandomnessOfAny(local, total) ==
    Ok([local |-> local, total |-> total.x])

SchnorrRandomnessOf(local, total) ==
    IF total.kind = "Finite" THEN Ok([local |-> local, total |-> total.x])
    ELSE Err("InvalidSchnorrRandomness")

\* SchnorrRandomness::new
SchnorrRandomnessNew(c, local, others) ==
    SchnorrRandomnessOf(local, RandomnessSum(c, local, others, Len(others)))

\* sign, from s on: SchnorrSignature::new(sig.s + s, e).unwrap()
MultiSignWithS(c, sg, s, e) ==
    IF s < 0 THEN [outcome |-> "panic", sig |-> sg]
    ELSE [outcome |-> "signed", sig |-> SchnorrSignature(NumAdd(sg.s, s, c.N), e)]

\* sign, from a and e on: s = local - key * (a * e)
MultiSignWithE(c, key, rnd, sg, a, e) ==
    IF e < 0 THEN [outcome |-> "panic", sig |-> sg]
    ELSE MultiSignWithS(
             c, sg, NumSub(rnd.local, NumMul(key, NumMul(a, e, c.N), c.N), c.N), e)

\* MultiSchnorr::sign
MultiSign(c, seed, key, pks, rnd, msg, sg) ==
    MultiSignWithE(c, key, rnd, sg, HAgg(c, seed, pks, Derive(c, key)),
                   HSig(c, seed, pks, rnd.total, msg))

\* verify from the combined key on
MultiVerifyWithKey(c, seed, X, msg, sg) ==
    IF X.kind = "Panic" THEN "Panic" ELSE SchnorrVerify(c, seed, X, msg, sg)

\* MultiSchnorr::verify
MultiVerify(c, seed, pks, msg, sg) ==
    MultiVerifyWithKey(c, seed, Combine(c, seed, pks), msg, sg)

\* most signers of a session
MaxSigners == 2

\* private keys of the signers: a key and its negative among them
MultiKeys(c) == {1, c.N - 1}

\* numbers r_i of the signers: two that cancel, one not below N
MultiLocals(c) == {1, c.N - 1, c.N + 1}

\* messages of a session
MultiMsgs == {<<>>, <<1>>}

\* the commitment a signer publishes for the point R
Commitment(seed, R) == HashNum(seed, NumToLeBytes(R.x) \o NumToLeBytes(R.y))

\* the points the others revealed to signer i
OthersOf(pts, i) == SubSeq(pts, 1, i - 1) \o SubSeq(pts, i + 1, Len(pts))

\* the public keys of the session
SessionKeys == [i \in 1..Len(mkeys) |-> Derive(curve, mkeys[i])]

MultiInit ==
    /\ spc = "multi" /\ curve \in Curves /\ hsel \in HashSeeds
    /\ keyIn = NoKey /\ skey = NoKey /\ pkey = NoPoint /\ smsg = <<>>
    /\ snonce = 0 /\ sattempts = 0 /\ sig = NoSig /\ vkey = NoPoint
    /\ vsig = NoSig /\ vres = "none"
    /\ MultiIdle

\* first round with the given keys, numbers and messages to pick from: the
\* signers pick their numbers and publish the commitments to r_i * G
MultiCommitFrom(keys, locals, msgs) ==
    /\ spc = "multi"
    /\ \E n \in 1..MaxSigners :
          \E ks \in [1..n -> keys],
             ls \in [1..n -> locals] :
              /\ mkeys' = ks
              /\ mlocal' = ls
              /\ mcommit' = [i \in 1..n |->
                                Commitment(hsel, Scale(curve, curve.G, ls[i]))]
    /\ smsg' \in msgs
    /\ sig' = SchnorrSignatureDefault
    /\ spc' = "committed"
    /\ UNCHANGED <<curve, hsel, keyIn, skey, pkey, snonce, sattempts, vkey, vsig, vres>>
    /\ UNCHANGED <<mreveal, mrand, msigned>>
    /\ UNCHANGED notMulti

\* first round
MultiCommit == MultiCommitFrom(MultiKeys(curve), MultiLocals(curve), MultiMsgs)

\* private keys with public keys of different x coordinates
DistinctKeys == {1, 2, 3}

\* numbers r_i of the signers of a session of distinct keys
DistinctLocals == {1, 2}

\* first round of a session of signers with keys among the distinct ones
MultiCommitDistinct == MultiCommitFrom(DistinctKeys, DistinctLocals, {<<1>>})

\* second round: every signer reveals a point, r_i * G or, for the signer
\* j picked among the given ones (0 for none), another point
MultiRevealBy(cheats) ==
    /\ spc = "committed"
    /\ \E j \in cheats :
          mreveal' = [i \in 1..Len(mkeys) |->
                         IF i = j
                         THEN PointSum(curve, Scale(curve, curve.G, mlocal[i]),
                                       curve.G)
                         ELSE Scale(curve, curve.G, mlocal[i])]
    /\ spc' = "revealed"
    /\ UNCHANGED <<curve, hsel, keyIn, skey, pkey, smsg, snonce, sattempts, sig,
                   vkey, vsig, vres>>
    /\ UNCHANGED <<mkeys, mlocal, mcommit, mrand, msigned>>
    /\ UNCHANGED notMulti

\* second round, at most one signer revealing another point
MultiReveal == MultiRevealBy(0..Len(mkeys))

\* second round of honest signers
MultiRevealHonest == MultiRevealBy({0})

\* SchnorrRandomness::new by the next signer, on its number and the points
\* the others revealed
SchnorrRandomnessNewCall ==
    /\ spc = "revealed"
    /\ Len(mrand) < Len(mkeys)
    /\ mrand' = Append(mrand,
                       SchnorrRandomnessNew(curve, mlocal[Len(mrand) + 1],
                                            OthersOf(mreveal, Len(mrand) + 1)))
    /\ UNCHANGED <<spc, curve, hsel, keyIn, skey, pkey, smsg, snonce, sattempts,
                   sig, vkey, vsig, vres>>
    /\ UNCHANGED <<mkeys, mlocal, mcommit, mreveal, msigned>>
    /\ UNCHANGED notMulti

\* MultiSchnorr::sign by a signer that has not signed, on the running
\* signature
MultiSignCall ==
    /\ spc = "revealed"
    /\ Len(mrand) = Len(mkeys)
    /\ \E i \in (1..Len(mkeys)) \ msigned :
          /\ mrand[i].tag = "Ok"
          /\ \E step \in {MultiSign(curve, hsel, mkeys[i], SessionKeys,
                                    mrand[i].data, smsg, sig)} :
                /\ sig' = step.sig
                /\ spc' = IF step.outcome = "signed" THEN "revealed"
                          ELSE "signpanic"
          /\ msigned' = msigned \cup {i}
    /\ UNCHANGED <<curve, hsel, keyIn, skey, pkey, smsg, snonce, sattempts,
                   vkey, vsig, vres>>
    /\ UNCHANGED <<mkeys, mlocal, mcommit, mreveal, mrand>>
    /\ UNCHANGED notMulti

\* MultiSchnorr::verify of the running signature with the keys of the
\* session
MultiVerifyCall ==
    /\ spc = "revealed"
    /\ Len(mrand) = Len(mkeys)
    /\ vsig' = sig
    /\ vres' = MultiVerify(curve, hsel, SessionKeys, smsg, sig)
    /\ spc' = "multiverified"
    /\ UNCHANGED <<curve, hsel, keyIn, skey, pkey, smsg, snonce, sattempts,
                   sig, vkey>>
    /\ UNCHANGED multiVars
    /\ UNCHANGED notMulti

\* the orders in which a list of keys can be passed
KeyOrders(pks) ==
    {[i \in 1..Len(pks) |-> pks[f[i]]] :
        f \in {g \in [1..Len(pks) -> 1..Len(pks)] :
                  \A a, b \in 1..Len(pks) : g[a] = g[b] => a = b}}

\* MultiSchnorr::sign by a signer that has not signed, on the running
\* signature, with the keys of the session listed in an order of its own
MultiSignOrdered ==
    /\ spc = "revealed"
    /\ Len(mrand) = Len(mkeys)
    /\ \E i \in (1..Len(mkeys)) \ msigned :
          /\ mrand[i].tag = "Ok"
          /\ \E pks \in KeyOrders(SessionKeys) :
                \E step \in {MultiSign(curve, hsel, mkeys[i], pks,
                                       mrand[i].data, smsg, sig)} :
                    /\ sig' = step.sig
                    /\ spc' = IF step.outcome = "signed" THEN "revealed"
                              ELSE "signpanic"
          /\ msigned' = msigned \cup {i}
    /\ UNCHANGED <<curve, hsel, keyIn, skey, pkey, smsg, snonce, sattempts,
                   vkey, vsig, vres>>
    /\ UNCHANGED <<mkeys, mlocal, mcommit, mreveal, mrand>>
    /\ UNCHANGED notMulti

\* MultiSchnorr::verify of the running signature with the keys of the
\* session listed in any order
MultiVerifyOrdered ==
    /\ spc = "revealed"
    /\ Len(mrand) = Len(mkeys)
    /\ vsig' = sig
    /\ \E pks \in KeyOrders(SessionKeys) :
          vres' = MultiVerify(curve, hsel, pks, smsg, sig)
    /\ spc' = "multiverified"
    /\ UNCHANGED <<curve, hsel, keyIn, skey, pkey, smsg, snonce, sattempts,
                   sig, vkey>>
    /\ UNCHANGED multiVars
    /\ UNCHANGED notMulti

(***************************************************************************)
(* Fortuna: random/fortuna.rs.  fbs is the block size of the cipher and    *)
(* fhash the hash function; fkey is the key the closure of into_iter       *)
(* holds, fchunk what is left of the chunk the flattened iterator is       *)
(* walking, fout the bytes yielded so far and fseeds the buffers the       *)
(* entropy source filled, in order.                                        *)
(***************************************************************************)
\* RESEED_SIZE, scaled
ReseedSize == 20

\* SEED_SIZE, scaled
SeedSize == 2

\* most chunks generated
MaxChunks == 3

\* Fortuna::new
FortunaNew(bs) == CtrNew(bs)

\* into_iter, the closure: the new key from the old key and the seed
FortunaKeyFresh(seed, key, s) == Hash(seed, s)

FortunaKey(seed, key, s) == Hash(seed, key \o s)

\* into_iter, the closure: RESEED_SIZE zero bytes encrypted under the key by
\* the Ctr built with the nonce 0
FortunaChunk(key, bs) == CtrEncrypt(Repeat(0, ReseedSize), key, bs, U64Zero)

\* Flatten::next: the closure is called when no chunk is left to walk
NeedsChunkEarly(chunk) == Len(chunk) <= 1

NeedsChunk(chunk) == chunk = <<>>

\* what the entropy source writes into the buffer: NoEntropy of the tests
\* and two others
Seeds == {Repeat(0, SeedSize), Repeat(9, SeedSize), [i \in 1..SeedSize |-> i]}

FortunaBlockSizes == {CounterBytes - 1, CounterBytes, CounterBytes + 1}

\* no generator
FortunaIdle ==
    /\ fpc = "idle" /\ fbs = 0 /\ fhash = 0 /\ fkey = <<>> /\ fchunk = <<>>
    /\ fout = <<>> /\ fseeds = <<>>

FortunaInit ==
    /\ fpc = "new" /\ fbs \in FortunaBlockSizes /\ fhash \in HashSeeds
    /\ fkey = <<>> /\ fchunk = <<>> /\ fout = <<>> /\ fseeds = <<>>

\* Fortuna::new(..) and, when it returned Ok, into_iter: the key is the
\* default key and the closure has not run
FortunaIntoIter ==
    /\ fpc = "new"
    /\ fpc' = IF FortunaNew(fbs) = "Ok" THEN "iterating" ELSE "BlockSizeTooSmall"
    /\ fkey' = Repeat(0, DigestSize)
    /\ UNCHANGED <<fbs, fhash, fchunk, fout, fseeds>>
    /\ UNCHANGED notFortuna

\* next() while bytes of the chunk are left
FortunaNextByte ==
    /\ fpc = "iterating"
    /\ ~NeedsChunk(fchunk)
    /\ fout' = Append(fout, Head(fchunk))
    /\ fchunk' = Tail(fchunk)
    /\ UNCHANGED <<fpc, fbs, fhash, fkey, fseeds>>
    /\ UNCHANGED notFortuna

\* next() when no chunk is left: the closure asks the entropy source for a
\* seed, replaces the key, generates a chunk, and its first byte is yielded
FortunaNextReseed ==
    /\ fpc = "iterating"
    /\ NeedsChunk(fchunk)
    /\ Len(fseeds) < MaxChunks
    /\ \E s \in Seeds :
          \E chunk \in {FortunaChunk(FortunaKey(fhash, fkey, s), fbs)} :
              /\ fseeds' = Append(fseeds, s)
              /\ fkey' = FortunaKey(fhash, fkey, s)
              /\ fpc' = IF chunk.tag = "Ok" THEN "iterating" ELSE "panic"
              /\ fout' = IF chunk.tag = "Ok" THEN Append(fout, Head(chunk.data))
                         ELSE fout
              /\ fchunk' = IF chunk.tag = "Ok" THEN Tail(chunk.data) ELSE <<>>
    /\ UNCHANGED <<fbs, fhash>>
    /\ UNCHANGED notFortuna

(***************************************************************************)
(* Calls of the modular operations of Num on their own: nres is what       *)
(* na.sub(nb, np) or na.inv(np) returned.                                  *)
(***************************************************************************)
\* prime moduli
NumPrimes == {7, 13, 31, 43, 251}

\* no call
NumIdle == npc = "idle" /\ na = 0 /\ nb = 0 /\ np = 0 /\ nres = 0

NumInit == npc = "ready" /\ na = 0 /\ nb = 0 /\ np \in NumPrimes /\ nres = 0

\* Num::sub on any two values of Num
NumSubCall ==
    /\ npc = "ready"
    /\ \E a \in Num, b \in Num :
          /\ na' = a
          /\ nb' = b
          /\ nres' = NumSub(a, b, np)
    /\ npc' = "sub"
    /\ UNCHANGED np
    /\ UNCHANGED notNum

\* Num::inv on any value of Num
NumInvCall ==
    /\ npc = "ready"
    /\ \E a \in Num :
          /\ na' = a
          /\ nres' = NumInv(a, np)
    /\ npc' = "inv"
    /\ UNCHANGED <<nb, np>>
    /\ UNCHANGED notNum

(***************************************************************************)
(* Calls of the operations of Point on their own: pubkey/ecc.rs.  pcv is   *)
(* the curve, pp1 a point Point::new or Point::infinity returned, pp2 the  *)
(* point added to it and pres the sum; pn is the scalar of a call of       *)
(* scale, pi the iterations of its loop that ran, pacc its accumulator     *)
(* and pdbl its running double.                                            *)
(***************************************************************************)
\* a curve with a coefficient a that is not zero: y^2 = x^3 + x + 6 over
\* the field of 11 elements, 13 points
Curve11 == [P |-> 11, N |-> 13, A |-> 1, B |-> 6, G |-> Finite(2, 7), SIZE |-> 1]

PointCurves == Curves \cup {Curve11}

\* Point::new
PointNew(c, x, y) ==
    IF OnCurve(c, x, y) THEN Ok(Finite(x, y)) ELSE Err("InvalidPoint")

\* coordinates offered to Point::new: those below P and those one P above
PointCoords(c) == 0..(2 * c.P - 1)

\* the points Point::new accepts from these coordinates, and infinity
PointsOffered ==
    Tabulated([c \in PointCurves |->
        {Infinity} \cup
        {Finite(xy[1], xy[2]) :
            xy \in {xy \in PointCoords(c) \X PointCoords(c) :
                       OnCurve(c, xy[1], xy[2])}}])

\* scalars of scale
Scalars(c) == 0..(c.N + 1) \cup {2 * c.N + 3, Pow2N(NumBits) - 1}

\* no call
PointIdle ==
    /\ ppc = "idle" /\ pcv = Curve13 /\ pp1 = NoPoint /\ pp2 = NoPoint
    /\ pres = NoPoint /\ pn = 0 /\ pi = 0 /\ pacc = NoPoint /\ pdbl = NoPoint

PointInit ==
    /\ ppc = "new" /\ pcv \in PointCurves /\ pp1 = NoPoint /\ pp2 = NoPoint
    /\ pres = NoPoint /\ pn = 0 /\ pi = 0 /\ pacc = NoPoint /\ pdbl = NoPoint

\* Point::new on a pair of coordinates
PointNewCall ==
    /\ ppc = "new"
    /\ \E x \in PointCoords(pcv), y \in PointCoords(pcv) :
          \E res \in {PointNew(pcv, x, y)} :
              /\ pp1' = IF res.tag = "Ok" THEN res.data ELSE Finite(x, y)
              /\ ppc' = IF res.tag = "Ok" THEN "point" ELSE "invalidpoint"
    /\ UNCHANGED <<pcv, pp2, pres, pn, pi, pacc, pdbl>>
    /\ UNCHANGED notPoint

\* Point::infinity
PointInfinityCall ==
    /\ ppc = "new"
    /\ pp1' = Infinity
    /\ ppc' = "point"
    /\ UNCHANGED <<pcv, pp2, pres, pn, pi, pacc, pdbl>>
    /\ UNCHANGED notPoint

\* pp1 + q for a point q of the curve
PointAddCall ==
    /\ ppc = "point"
    /\ \E q \in PointsOffered[pcv] :
          /\ pp2' = q
          /\ pres' = PointAdd(pcv, pp1, q)
    /\ ppc' = "added"
    /\ UNCHANGED <<pcv, pp1, pn, pi, pacc, pdbl>>
    /\ UNCHANGED notPoint

\* scale up to the loop
PointScaleBegin ==
    /\ ppc = "point"
    /\ pn' \in Scalars(pcv)
    /\ pacc' = Infinity
    /\ pdbl' = pp1
    /\ pi' = 0
    /\ ppc' = "scaling"
    /\ UNCHANGED <<pcv, pp1, pp2, pres>>
    /\ UNCHANGED notPoint

\* one iteration of the loop of scale; the result is returned after the
\* last one
PointScaleIter ==
    /\ ppc = "scaling"
    /\ pi < NumBits
    /\ \E acc \in {IF GetBit(pn, pi) THEN PointAdd(pcv, pacc, pdbl) ELSE pacc},
          dbl \in {PointAdd(pcv, pdbl, pdbl)} :
          /\ pacc' = acc
          /\ pdbl' = dbl
          /\ ppc' = IF acc.kind = "Panic" \/ dbl.kind = "Panic" THEN "panic"
                    ELSE IF pi + 1 = NumBits THEN "scaled" ELSE "scaling"
          /\ pres' = IF pi + 1 = NumBits THEN acc ELSE pres
    /\ pi' = pi + 1
    /\ UNCHANGED <<pcv, pp1, pp2, pn>>
    /\ UNCHANGED notPoint

(***************************************************************************)
(* The paddings of the hash functions: hash/sha2.rs (LengthPadding),       *)
(* hash/sha1.rs (Sha1Pad) and hash/sha3.rs (pad10star1).  A padding        *)
(* returns the blocks it yields, in order.  hm1 and hm2 are the messages   *)
(* padded, hout1 and hout2 the blocks returned for them, hkind the padding *)
(* called and hrate the rate R of pad10star1.                              *)
(***************************************************************************)
\* BLOCK_BYTES of sha2.rs and sha1.rs
BlockBytes == 64

\* bytes of the length field, a u64
LengthBytes == 8

\* v >> (8 * k)
RECURSIVE ShiftBytes(_, _)
ShiftBytes(v, k) == IF k = 0 THEN v ELSE ShiftBytes(v \div 256, k - 1)

\* u64::to_be_bytes
U64ToBeBytes(v) == [i \in 1..LengthBytes |-> ShiftBytes(v, LengthBytes - i) % 256]

\* a | b on u8
Or(a, b) ==
    LET bit(i) == IF ((a \div Pow2[i]) % 2) + ((b \div Pow2[i]) % 2) > 0
                  THEN 1 ELSE 0
    IN  bit(1) + 2 * bit(2) + 4 * bit(3) + 8 * bit(4) + 16 * bit(5)
        + 32 * bit(6) + 64 * bit(7) + 128 * bit(8)

\* the chunk followed by 0x80 and zeros up to the block size
MarkedBlock(chunk) ==
    [i \in 1..BlockBytes |->
        IF i <= Len(chunk) THEN chunk[i]
        ELSE IF i = Len(chunk) + 1 THEN 128 ELSE 0]

\* the block with the bit length of the message in its last bytes
WithLengthOfChunk(block, len) ==
    [i \in 1..BlockBytes |->
        IF i > BlockBytes - LengthBytes
        THEN U64ToBeBytes(8 * (len % BlockBytes))[i - (BlockBytes - LengthBytes)]
        ELSE block[i]]

WithLength(block, len) ==
    [i \in 1..BlockBytes |->
        IF i > BlockBytes - LengthBytes
        THEN U64ToBeBytes(8 * len)[i - (BlockBytes - LengthBytes)]
        ELSE block[i]]

\* pad, the closure of flat_map: the blocks made of one chunk
LengthPadChunkNoExtra(chunk, len) ==
    IF Len(chunk) = BlockBytes THEN <<chunk>>
    ELSE <<WithLength(MarkedBlock(chunk), len)>>

LengthPadChunk(chunk, len) ==
    IF Len(chunk) = BlockBytes THEN <<chunk>>
    ELSE IF BlockBytes - Len(chunk) <= LengthBytes
    THEN <<MarkedBlock(chunk), WithLength(Repeat(0, BlockBytes), len)>>
    ELSE <<WithLength(MarkedBlock(chunk), len)>>

\* pad, the chunks of the message chained with an empty one when the
\* length is a multiple of the block size: the i-th of them, from 0
LengthPadChunkAt(m, i) ==
    IF i < NumChunks(m, BlockBytes) THEN Chunk(m, BlockBytes, i) ELSE <<>>

\* pad, the blocks of the first i chunks
RECURSIVE LengthPadBlocks(_, _)
LengthPadBlocks(m, i) ==
    IF i = 0 THEN <<>>
    ELSE LengthPadBlocks(m, i - 1)
             \o LengthPadChunk(LengthPadChunkAt(m, i - 1), Len(m))

\* LengthPadding::pad
LengthPadding(m) ==
    LengthPadBlocks(m, NumChunks(m, BlockBytes)
                           + (IF Len(m) % BlockBytes = 0 THEN 1 ELSE 0))

\* Sha1Pad::pad: the same code as LengthPadding::pad
Sha1Pad(m) ==
    LengthPadBlocks(m, NumChunks(m, BlockBytes)
                           + (IF Len(m) % BlockBytes = 0 THEN 1 ELSE 0))

\* pad10star1, the padding block appended to an input of whole blocks
Pad10Star1Block(r) ==
    [[i \in 1..r |-> IF i = 1 THEN 6 ELSE 0] EXCEPT ![r] = 128]

\* pad10star1, the closure of map on a short block: the first byte of the
\* padding gets 0x06, the last byte of the block 0x80
Pad10Star1LastAssign(block, r) ==
    [i \in 1..r |->
        IF i <= Len(block) THEN block[i]
        ELSE IF i = r THEN 128
        ELSE IF i = Len(block) + 1 THEN 6 ELSE 0]

Pad10Star1Last(block, r) ==
    [i \in 1..r |->
        Or(Or(IF i <= Len(block) THEN block[i] ELSE 0,
              IF i = Len(block) + 1 THEN 6 ELSE 0),
           IF i = r THEN 128 ELSE 0)]

\* pad10star1
Pad10Star1(data, r) ==
    IF Len(data) % r = 0
    THEN [i \in 1..(NumChunks(data, r) + 1) |->
             IF i <= NumChunks(data, r) THEN Chunk(data, r, i - 1)
             ELSE Pad10Star1Block(r)]
    ELSE [i \in 1..NumChunks(data, r) |->
             IF Len(Chunk(data, r, i - 1)) = r THEN Chunk(data, r, i - 1)
             ELSE Pad10Star1Last(Chunk(data, r, i - 1), r)]

\* longest message padded by the length paddings
MaxMsgLen == 130

\* largest rate of pad10star1, and the longest input in rates
MaxRate == 4
MaxRates == 2

\* messages padded by the length paddings: zeros and a pattern
PadMsgs ==
    {Repeat(0, n) : n \in 0..MaxMsgLen} \cup {Pattern(n, 3) : n \in 0..MaxMsgLen}

\* inputs of pad10star1: bytes that look like its padding among them
SpongeMsgs(r) ==
    UNION {{Repeat(0, n), Repeat(6, n), Repeat(128, n), Pattern(n, 3)} :
              n \in 0..(MaxRates * r + 1)}

\* no call
HashPadIdle ==
    /\ hpc = "idle" /\ hkind = "none" /\ hrate = 0 /\ hm1 = <<>> /\ hm2 = <<>>
    /\ hout1 = <<>> /\ hout2 = <<>>

HashPadInit ==
    /\ hpc = "ready" /\ hkind = "none" /\ hrate = 0 /\ hm1 = <<>> /\ hm2 = <<>>
    /\ hout1 = <<>> /\ hout2 = <<>>

\* Sha1Pad::pad on a message
Sha1PadCall ==
    /\ hpc = "ready"
    /\ \E m \in PadMsgs :
          /\ hm1' = m
          /\ hout1' = Sha1Pad(m)
    /\ hkind' = "sha1"
    /\ hpc' = "padded"
    /\ UNCHANGED <<hrate, hm2, hout2>>
    /\ UNCHANGED notHashPad

\* LengthPadding::pad on a message
LengthPaddingCall ==
    /\ hpc = "ready"
    /\ \E m \in PadMsgs :
          /\ hm1' = m
          /\ hout1' = LengthPadding(m)
    /\ hkind' = "sha2"
    /\ hpc' = "padded"
    /\ UNCHANGED <<hrate, hm2, hout2>>
    /\ UNCHANGED notHashPad

\* LengthPadding::pad on a second message
LengthPaddingAgain ==
    /\ hpc = "padded" /\ hkind = "sha2"
    /\ \E m \in PadMsgs :
          /\ hm2' = m
          /\ hout2' = LengthPadding(m)
    /\ hpc' = "paddedpair"
    /\ UNCHANGED <<hkind, hrate, hm1, hout1>>
    /\ UNCHANGED notHashPad

\* pad10star1::<R> on an input
Pad10Star1Call ==
    /\ hpc = "ready"
    /\ \E r \in 1..MaxRate :
          \E m \in SpongeMsgs(r) :
              /\ hrate' = r
              /\ hm1' = m
              /\ hout1' = Pad10Star1(m, r)
    /\ hkind' = "sha3"
    /\ hpc' = "padded"
    /\ UNCHANGED <<hm2, hout2>>
    /\ UNCHANGED notHashPad

(***************************************************************************)
(* HMAC: mac/hmac.rs.  Hmac is generic over the hash; the model            *)
(* instantiates it with the hash family above (digest of DigestSize bytes) *)
(* and an internal block size tblock of DigestSize..MaxHmacBlock bytes.    *)
(***************************************************************************)
OPAD == 92
IPAD == 54

MaxHmacBlock == 4
MaxKeyLen == 5
MaxMacLen == 2

HmacBlocks == DigestSize..MaxHmacBlock
HmacKeys == SeqsUpTo({0, 1}, MaxKeyLen)
HmacMsgs == SeqsUpTo({0, 1}, MaxMacLen)

\* k.iter().map(|n| n ^ pad)
XorPad(k, pad) == [i \in 1..Len(k) |-> Xor(k[i], pad)]

\* k[..len].copy_from_slice(&src[..len]) into k = [0; BLOCK_SIZE]
CopyIntoZeros(block, src, len) ==
    [i \in 1..block |-> IF i <= len THEN src[i] ELSE 0]

\* the derivation of K': a key of at least BLOCK_SIZE bytes is hashed
HmacKeyHashAtBlock(seed, block, key) ==
    IF Len(key) < block
    THEN CopyIntoZeros(block, key, Len(key))
    ELSE CopyIntoZeros(block, Hash(seed, key),
                       IF DigestSize <= block THEN DigestSize ELSE block)

\* the derivation of K': the first statement of Hmac::mac
HmacKey(seed, block, key) ==
    IF Len(key) <= block
    THEN CopyIntoZeros(block, key, Len(key))
    ELSE CopyIntoZeros(block, Hash(seed, key),
                       IF DigestSize <= block THEN DigestSize ELSE block)

\* the inner hash
HmacInner(seed, k, msg) == Hash(seed, XorPad(k, IPAD) \o msg)

\* the outer hash, the tag
HmacOuter(seed, k, inner) == Hash(seed, XorPad(k, OPAD) \o inner)

\* Hmac::mac
HmacMac(seed, block, msg, key) ==
    HmacOuter(seed, HmacKey(seed, block, key),
              HmacInner(seed, HmacKey(seed, block, key), msg))

HmacIdle ==
    /\ tpc = "idle" /\ tseed = 0 /\ tblock = 0 /\ tkey = <<>> /\ tmsg = <<>>
    /\ ttag = <<>> /\ ttag2 = <<>>

\* Hmac::new
HmacInit ==
    /\ tpc = "new" /\ tseed \in HashSeeds /\ tblock \in HmacBlocks
    /\ tkey = <<>> /\ tmsg = <<>> /\ ttag = <<>> /\ ttag2 = <<>>

\* Hmac::mac on a message and a key
HmacMacCall ==
    /\ tpc = "new"
    /\ \E key \in HmacKeys, msg \in HmacMsgs :
          /\ tkey' = key
          /\ tmsg' = msg
          /\ ttag' = HmacMac(tseed, tblock, msg, key)
    /\ tpc' = "tagged"
    /\ UNCHANGED <<tseed, tblock, ttag2>>
    /\ UNCHANGED notHmac

\* Hmac::mac once more on the same message and key
HmacMacAgain ==
    /\ tpc = "tagged"
    /\ ttag2' = HmacMac(tseed, tblock, tmsg, tkey)
    /\ tpc' = "again"
    /\ UNCHANGED <<tseed, tblock, tkey, tmsg, ttag>>
    /\ UNCHANGED notHmac

(***************************************************************************)
(* AES: cipher/block/aes.rs.  The state is the block as a sequence of 16   *)
(* bytes (index i of the source is index i + 1 here), w the expanded key.  *)
(***************************************************************************)
WORD_SIZE == 4
NB == 4

S_BOX == <<
    99, 124, 119, 123, 242, 107, 111, 197, 48, 1, 103, 43, 254, 215, 171, 118,
    202, 130, 201, 125, 250, 89, 71, 240, 173, 212, 162, 175, 156, 164, 114, 192,
    183, 253, 147, 38, 54, 63, 247, 204, 52, 165, 229, 241, 113, 216, 49, 21,
    4, 199, 35, 195, 24, 150, 5, 154, 7, 18, 128, 226, 235, 39, 178, 117,
    9, 131, 44, 26, 27, 110, 90, 160, 82, 59, 214, 179, 41, 227, 47, 132,
    83, 209, 0, 237, 32, 252, 177, 91, 106, 203, 190, 57, 74, 76, 88, 207,
    208, 239, 170, 251, 67, 77, 51, 133, 69, 249, 2, 127, 80, 60, 159, 168,
    81, 163, 64, 143, 146, 157, 56, 245, 188, 182, 218, 33, 16, 255, 243, 210,
    205, 12, 19, 236, 95, 151, 68, 23, 196, 167, 126, 61, 100, 93, 25, 115,
    96, 129, 79, 220, 34, 42, 144, 136, 70, 238, 184, 20, 222, 94, 11, 219,
    224, 50, 58, 10, 73, 6, 36, 92, 194, 211, 172, 98, 145, 149, 228, 121,
    231, 200, 55, 109, 141, 213, 78, 169, 108, 86, 244, 234, 101, 122, 174, 8,
    186, 120, 37, 46, 28, 166, 180, 198, 232, 221, 116, 31, 75, 189, 139, 138,
    112, 62, 181, 102, 72, 3, 246, 14, 97, 53, 87, 185, 134, 193, 29, 158,
    225, 248, 152, 17, 105, 217, 142, 148, 155, 30, 135, 233, 206, 85, 40, 223,
    140, 161, 137, 13, 191, 230, 66, 104, 65, 153, 45, 15, 176, 84, 187, 22>>

INV_S_BOX == <<
    82, 9, 106, 213, 48, 54, 165, 56, 191, 64, 163, 158, 129, 243, 215, 251,
    124, 227, 57, 130, 155, 47, 255, 135, 52, 142, 67, 68, 196, 222, 233, 203,
    84, 123, 148, 50, 166, 194, 35, 61, 238, 76, 149, 11, 66, 250, 195, 78,
    8, 46, 161, 102, 40, 217, 36, 178, 118, 91, 162, 73, 109, 139, 209, 37,
    114, 248, 246, 100, 134, 104, 152, 22, 212, 164, 92, 204, 93, 101, 182, 146,
    108, 112, 72, 80, 253, 237, 185, 218, 94, 21, 70, 87, 167, 141, 157, 132,
    144, 216, 171, 0, 140, 188, 211, 10, 247, 228, 88, 5, 184, 179, 69, 6,
    208, 44, 30, 143, 202, 63, 15, 2, 193, 175, 189, 3, 1, 19, 138, 107,
    58, 145, 17, 65, 79, 103, 220, 234, 151, 242, 207, 206, 240, 180, 230, 115,
    150, 172, 116, 34, 231, 173, 53, 133, 226, 249, 55, 232, 28, 117, 223, 110,
    71, 241, 26, 113, 29, 41, 197, 137, 111, 183, 98, 14, 170, 24, 190, 27,
    252, 86, 62, 75, 198, 210, 121, 32, 154, 219, 192, 254, 120, 205, 90, 244,
    31, 221, 168, 51, 136, 7, 199, 49, 177, 18, 16, 89, 39, 128, 236, 95,
    96, 81, 127, 169, 25, 181, 74, 13, 45, 229, 122, 159, 147, 201, 156, 239,
    160, 224, 59, 77, 174, 42, 245, 176, 200, 235, 187, 60, 131, 83, 153, 97,
    23, 43, 4, 126, 186, 119, 214, 38, 225, 105, 20, 99, 85, 33, 12, 125>>

RCON == <<
    0, 1, 2, 4, 8, 16, 32, 64, 128, 27, 54, 108, 216, 171, 77>>

\* the three variants: key size in words and number of rounds
Aes128 == [NK |-> 4, NR |-> 10]
Aes192 == [NK |-> 6, NR |-> 12]
Aes256 == [NK |-> 8, NR |-> 14]
AesVariants == {Aes128, Aes192, Aes256}

\* a ^ b on u8, looked up
XorTable == Tabulated([a \in Byte |-> [b \in Byte |-> Xor(a, b)]])
BXor(a, b) == XorTable[a][b]

\* times_02: shift left and reduce by 0x1b when the high bit was set
Times02(b) == IF b >= 128 THEN Xor((2 * b) % 256, 27) ELSE 2 * b
Times03(b) == Xor(Times02(b), b)
Times04(b) == Times02(Times02(b))
Times08(b) == Times02(Times04(b))
Times09(b) == Xor(Times08(b), b)
Times0b(b) == Xor(Times08(b), Times03(b))
Times0d(b) == Xor(Xor(Times08(b), Times04(b)), b)
Times0e(b) == Xor(Xor(Times08(b), Times04(b)), Times02(b))

\* the six multiples the column mixes use, looked up
T02 == Tabulated([b \in Byte |-> Times02(b)])
T03 == Tabulated([b \in Byte |-> Times03(b)])
T09 == Tabulated([b \in Byte |-> Times09(b)])
T0b == Tabulated([b \in Byte |-> Times0b(b)])
T0d == Tabulated([b \in Byte |-> Times0d(b)])
T0e == Tabulated([b \in Byte |-> Times0e(b)])

\* add_round_key
AddRoundKey(state, w, round) ==
    Tabulated([i \in 1..Len(state) |-> BXor(state[i], w[round * NB * WORD_SIZE + i])])

\* sub_bytes
SubBytes(bytes) ==
    Tabulated([i \in 1..Len(bytes) |-> S_BOX[bytes[i] + 1]])

\* inv_sub_bytes
InvSubBytes(bytes) ==
    Tabulated([i \in 1..Len(bytes) |-> INV_S_BOX[bytes[i] + 1]])

\* state.swap(i, j)
Swap(state, i, j) ==
    [state EXCEPT ![i + 1] = state[j + 1], ![j + 1] = state[i + 1]]

\* the first k swaps of a list, in order
RECURSIVE Swaps(_, _, _)
Swaps(state, pairs, k) ==
    IF k = 0 THEN state
    ELSE Swap(Swaps(state, pairs, k - 1), pairs[k][1], pairs[k][2])

ShiftRowsSwaps ==
    <<<<1, 13>>, <<5, 9>>, <<1, 9>>, <<2, 10>>, <<6, 14>>,
      <<3, 7>>, <<11, 15>>, <<3, 11>>>>

InvShiftRowsSwaps ==
    <<<<1, 13>>, <<5, 9>>, <<5, 13>>, <<2, 10>>, <<6, 14>>,
      <<3, 15>>, <<7, 11>>, <<3, 11>>>>

\* where each byte of the result comes from: the swaps applied to the
\* positions 1..16
ShiftRowsFrom ==
    Tabulated(Swaps([i \in 1..(NB * WORD_SIZE) |-> i], ShiftRowsSwaps,
                    Len(ShiftRowsSwaps)))
InvShiftRowsFrom ==
    Tabulated(Swaps([i \in 1..(NB * WORD_SIZE) |-> i], InvShiftRowsSwaps,
                    Len(InvShiftRowsSwaps)))

\* shift_rows
ShiftRows(state) ==
    Tabulated([i \in 1..Len(state) |-> state[ShiftRowsFrom[i]]])

\* inv_shift_rows with the swaps of shift_rows
InvShiftRowsAsShift(state) ==
    Tabulated([i \in 1..Len(state) |-> state[ShiftRowsFrom[i]]])

\* inv_shift_rows
InvShiftRows(state) ==
    Tabulated([i \in 1..Len(state) |-> state[InvShiftRowsFrom[i]]])

\* one byte of mix_columns: row r of the column that starts at c
MixByte(s, c, r) ==
    CASE r = 0 -> BXor(BXor(T02[s[c + 1]], T03[s[c + 2]]), BXor(s[c + 3], s[c + 4]))
      [] r = 1 -> BXor(BXor(s[c + 1], T02[s[c + 2]]), BXor(T03[s[c + 3]], s[c + 4]))
      [] r = 2 -> BXor(BXor(s[c + 1], s[c + 2]), BXor(T02[s[c + 3]], T03[s[c + 4]]))
      [] r = 3 -> BXor(BXor(T03[s[c + 1]], s[c + 2]), BXor(s[c + 3], T02[s[c + 4]]))

\* mix_columns
MixColumns(state) ==
    Tabulated([i \in 1..Len(state) |-> MixByte(state, 4 * ((i - 1) \div 4), (i - 1) % 4)])

\* one byte of inv_mix_columns
InvMixByte(s, c, r) ==
    CASE r = 0 -> BXor(BXor(T0e[s[c + 1]], T0b[s[c + 2]]), BXor(T0d[s[c + 3]], T09[s[c + 4]]))
      [] r = 1 -> BXor(BXor(T09[s[c + 1]], T0e[s[c + 2]]), BXor(T0b[s[c + 3]], T0d[s[c + 4]]))
      [] r = 2 -> BXor(BXor(T0d[s[c + 1]], T09[s[c + 2]]), BXor(T0e[s[c + 3]], T0b[s[c + 4]]))
      [] r = 3 -> BXor(BXor(T0b[s[c + 1]], T0d[s[c + 2]]), BXor(T09[s[c + 3]], T0e[s[c + 4]]))

\* inv_mix_columns
InvMixColumns(state) ==
    Tabulated([i \in 1..Len(state) |-> InvMixByte(state, 4 * ((i - 1) \div 4), (i - 1) % 4)])

\* rot_word
RotWord(word) ==
    Tabulated([j \in 1..WORD_SIZE |-> word[(j % WORD_SIZE) + 1]])

\* w[i * WORD_SIZE..(i + 1) * WORD_SIZE]
WordAt(w, i) ==
    Tabulated([j \in 1..WORD_SIZE |-> w[i * WORD_SIZE + j]])

\* temp[0] ^= RCON[i / NK]
RconInto(temp, rcon) == [temp EXCEPT ![1] = BXor(temp[1], rcon)]

\* temp of iteration i of key_expansion
ExpansionTemp(w, nk, i) ==
    IF i % nk = 0
    THEN RconInto(SubBytes(RotWord(WordAt(w, i - 1))), RCON[(i \div nk) + 1])
    ELSE IF nk > 6 /\ i % nk = 4
         THEN SubBytes(WordAt(w, i - 1))
         ELSE WordAt(w, i - 1)

\* iteration i of key_expansion: word i is word i - NK xor temp
ExpansionStep(w, nk, i) ==
    w \o [j \in 1..WORD_SIZE |->
             BXor(w[(i - nk) * WORD_SIZE + j], ExpansionTemp(w, nk, i)[j])]

\* NB * (NR + 1): the number of words of the expanded key
ExpansionWords(v) == NB * (v.NR + 1)

MaxKeySeeds == 3
MaxBlockSeeds == 4

\* keys of NK words: zeros, the bytes 00 01 02 .., and patterns
AesKeys(v) ==
    {Repeat(0, v.NK * WORD_SIZE), [i \in 1..(v.NK * WORD_SIZE) |-> i - 1]}
    \cup {Pattern(v.NK * WORD_SIZE, s) : s \in 1..MaxKeySeeds}

\* blocks: zeros, ones, the bytes 00 11 22 .. ff, and patterns
AesBlocks ==
    {Repeat(0, NB * WORD_SIZE), Repeat(255, NB * WORD_SIZE),
     [i \in 1..(NB * WORD_SIZE) |-> 17 * (i - 1)]}
    \cup {Pattern(NB * WORD_SIZE, s) : s \in 1..MaxBlockSeeds}

NoVariant == [NK |-> 0, NR |-> 0]

AesIdle ==
    /\ apc = "idle" /\ avar = NoVariant /\ akey = <<>> /\ ablock = <<>>
    /\ aw = <<>> /\ ai = 0 /\ astate = <<>> /\ akeys = <<>>
    /\ acipher = <<>> /\ adec = <<>>

\* Aes128::default(), Aes192::default(), Aes256::default()
AesInit ==
    /\ apc = "new" /\ avar \in AesVariants /\ akey = <<>> /\ ablock = <<>>
    /\ aw = <<>> /\ ai = 0 /\ astate = <<>> /\ akeys = <<>>
    /\ acipher = <<>> /\ adec = <<>>

\* encrypt is called: state = data, and key_expansion copies the key into
\* the first NK words of w
AesEncryptBegin ==
    /\ apc = "new"
    /\ \E key \in AesKeys(avar), data \in AesBlocks :
          /\ akey' = key
          /\ ablock' = data
          /\ astate' = data
          /\ aw' = key
    /\ ai' = avar.NK
    /\ apc' = "expand_enc"
    /\ UNCHANGED <<avar, akeys, acipher, adec>>
    /\ UNCHANGED notAes

\* iteration ai of the loop of key_expansion, in encrypt or in decrypt
AesKeyExpansionStep ==
    /\ apc \in {"expand_enc", "expand_dec"}
    /\ ai < ExpansionWords(avar)
    /\ aw' = ExpansionStep(aw, avar.NK, ai)
    /\ ai' = ai + 1
    /\ UNCHANGED <<apc, avar, akey, ablock, astate, akeys, acipher, adec>>
    /\ UNCHANGED notAes

\* encrypt: add_round_key(&mut state, &w, 0)
AesEncryptFirstKey ==
    /\ apc = "expand_enc"
    /\ ai = ExpansionWords(avar)
    /\ astate' = AddRoundKey(astate, aw, 0)
    /\ akeys' = <<0>>
    /\ ai' = 1
    /\ apc' = "rounds_enc"
    /\ UNCHANGED <<avar, akey, ablock, aw, acipher, adec>>
    /\ UNCHANGED notAes

\* encrypt: the round ai of for round in 1..NR
AesEncryptRound ==
    /\ apc = "rounds_enc"
    /\ ai < avar.NR
    /\ astate' = AddRoundKey(MixColumns(ShiftRows(SubBytes(astate))), aw, ai)
    /\ akeys' = Append(akeys, ai)
    /\ ai' = ai + 1
    /\ UNCHANGED <<apc, avar, akey, ablock, aw, acipher, adec>>
    /\ UNCHANGED notAes

\* encrypt: the last round, without mix_columns, and the return
AesEncryptFinal ==
    /\ apc = "rounds_enc"
    /\ ai = avar.NR
    /\ acipher' = AddRoundKey(ShiftRows(SubBytes(astate)), aw, avar.NR)
    /\ akeys' = Append(akeys, avar.NR)
    /\ apc' = "encrypted"
    /\ UNCHANGED <<avar, akey, ablock, aw, ai, astate, adec>>
    /\ UNCHANGED notAes

\* decrypt is called on the ciphertext and the same key
AesDecryptBegin ==
    /\ apc = "encrypted"
    /\ astate' = acipher
    /\ aw' = akey
    /\ ai' = avar.NK
    /\ apc' = "expand_dec"
    /\ UNCHANGED <<avar, akey, ablock, akeys, acipher, adec>>
    /\ UNCHANGED notAes

\* decrypt: add_round_key(&mut state, &w, NR)
AesDecryptFirstKey ==
    /\ apc = "expand_dec"
    /\ ai = ExpansionWords(avar)
    /\ astate' = AddRoundKey(astate, aw, avar.NR)
    /\ akeys' = Append(akeys, avar.NR)
    /\ ai' = avar.NR - 1
    /\ apc' = "rounds_dec"
    /\ UNCHANGED <<avar, akey, ablock, aw, acipher, adec>>
    /\ UNCHANGED notAes

\* decrypt: the round ai of for round in (1..NR).rev()
AesDecryptRound ==
    /\ apc = "rounds_dec"
    /\ ai >= 1
    /\ astate' = InvMixColumns(
                     AddRoundKey(InvSubBytes(InvShiftRows(astate)), aw, ai))
    /\ akeys' = Append(akeys, ai)
    /\ ai' = ai - 1
    /\ UNCHANGED <<apc, avar, akey, ablock, aw, acipher, adec>>
    /\ UNCHANGED notAes

\* decrypt: the last round, without inv_mix_columns, and the return
AesDecryptFinal ==
    /\ apc = "rounds_dec"
    /\ ai = 0
    /\ adec' = AddRoundKey(InvSubBytes(InvShiftRows(astate)), aw, 0)
    /\ akeys' = Append(akeys, 0)
    /\ apc' = "decrypted"
    /\ UNCHANGED <<avar, akey, ablock, aw, ai, astate, acipher>>
    /\ UNCHANGED notAes

(***************************************************************************)
(* uniform_random: random.rs.  The widths are scaled: a byte of the random *)
(* stream has DrawByteBits bits, so that the draw of four bytes (the u32)  *)
(* has 4 * DrawByteBits bits and U32Max is its largest value; the u64 of   *)
(* the source is wide enough for the product and so are the integers here. *)
(***************************************************************************)
DrawByteBits == 2
DrawByte == 0..(Pow2[DrawByteBits + 1] - 1)
DrawBytes == 4

\* u32::MAX
U32Max == Pow2[DrawByteBits + 1] * Pow2[DrawByteBits + 1]
          * Pow2[DrawByteBits + 1] * Pow2[DrawByteBits + 1] - 1

\* u32::from_le_bytes
RECURSIVE U32FromLeBytes(_, _)
U32FromLeBytes(b, n) ==
    IF n = 0 THEN 0
    ELSE U32FromLeBytes(b, n - 1) + b[n] * Pow2[DrawByteBits * (n - 1) + 1]

\* u64::from(range.start)
\*   + u64::from(range.end - range.start) * u64::from(draw) / u64::from(u32::MAX)
UniformResult(start, end, draw) ==
    start + ((end - start) * draw) \div U32Max

\* the outcome of a failed unwrap
UnwrapPanic == -1

\* result.try_into().unwrap()
U32TryFrom(result) == IF result <= U32Max THEN result ELSE UnwrapPanic

\* uniform_random on a stream with at least four bytes
UniformRandom(stream, start, end) ==
    U32TryFrom(UniformResult(start, end, U32FromLeBytes(stream, DrawBytes)))

MaxRangeEnd == 4
StreamLen == 5

\* range bounds: small ones and the largest values of the u32
RangeBounds == 0..MaxRangeEnd \cup {U32Max - 1, U32Max}

RandIdle ==
    /\ rpc = "idle" /\ rstream = <<>> /\ rstart = 0 /\ rend = 0 /\ rres = 0

\* a stream of random bytes is at hand
RandInit ==
    /\ rpc = "ready" /\ rstream \in [1..StreamLen -> DrawByte]
    /\ rstart = 0 /\ rend = 0 /\ rres = 0

\* uniform_random(rand, start..end) with start < end
UniformRandomCall ==
    /\ rpc = "ready"
    /\ \E start \in RangeBounds, end \in RangeBounds :
          /\ start < end
          /\ rstart' = start
          /\ rend' = end
          /\ rres' = UniformRandom(rstream, start, end)
    /\ rstream' = SubSeq(rstream, DrawBytes + 1, Len(rstream))
    /\ rpc' = IF rres' = UnwrapPanic THEN "panic" ELSE "drawn"
    /\ UNCHANGED notRand

(***************************************************************************)
(* Specifications.                                                         *)
(***************************************************************************)
InitPad == PadIdle /\ CipherIdle /\ SigIdle /\ FortunaIdle /\ NumIdle /\ PointIdle /\ HashPadIdle /\ HmacIdle /\ AesIdle /\ RandIdle
NextPad == Pad \/ Unpad \/ UnpadPadded
SpecPad == InitPad /\ [][NextPad]_vars

InitCipher == PadIdle /\ CipherInit /\ SigIdle /\ FortunaIdle /\ NumIdle /\ PointIdle /\ HashPadIdle /\ HmacIdle /\ AesIdle /\ RandIdle
NextCipher ==
    \/ EcbEncryptCall \/ EcbDecryptCall
    \/ CbcEncryptCall \/ CbcDecryptCall
    \/ CtrEncryptCall \/ CtrDecryptCall
SpecCipher == InitCipher /\ [][NextCipher]_vars

InitEcdsa == PadIdle /\ CipherIdle /\ SigInit /\ FortunaIdle /\ NumIdle /\ PointIdle /\ HashPadIdle /\ HmacIdle /\ AesIdle /\ RandIdle
NextEcdsa ==
    \/ PrivateKeyNewCall \/ DeriveCall
    \/ SignBegin \/ SignAttempt
    \/ SignatureNewCall \/ PublicKeyNewCall
    \/ VerifyCall
SpecEcdsa == InitEcdsa /\ [][NextEcdsa]_vars

InitSchnorr == PadIdle /\ CipherIdle /\ SchnorrInit /\ FortunaIdle /\ NumIdle /\ PointIdle /\ HashPadIdle /\ HmacIdle /\ AesIdle /\ RandIdle
NextSchnorr ==
    \/ SchnorrSignBegin \/ SchnorrSignAttempt
    \/ SchnorrVerifyCall \/ SchnorrSignatureNewCall
SpecSchnorr == InitSchnorr /\ [][NextSchnorr]_vars

InitMulti == PadIdle /\ CipherIdle /\ MultiInit /\ FortunaIdle /\ NumIdle /\ PointIdle /\ HashPadIdle /\ HmacIdle /\ AesIdle /\ RandIdle
NextMulti ==
    \/ MultiCommit \/ MultiReveal
    \/ SchnorrRandomnessNewCall \/ MultiSignCall
    \/ MultiVerifyCall
SpecMulti == InitMulti /\ [][NextMulti]_vars

NextMultiOrdered ==
    \/ MultiCommitDistinct \/ MultiRevealHonest
    \/ SchnorrRandomnessNewCall \/ MultiSignOrdered
    \/ MultiVerifyOrdered
SpecMultiOrdered == InitMulti /\ [][NextMultiOrdered]_vars

InitFortuna == PadIdle /\ CipherIdle /\ SigIdle /\ FortunaInit /\ NumIdle /\ PointIdle /\ HashPadIdle /\ HmacIdle /\ AesIdle /\ RandIdle
NextFortuna == FortunaIntoIter \/ FortunaNextByte \/ FortunaNextReseed
SpecFortuna == InitFortuna /\ [][NextFortuna]_vars

InitNum == PadIdle /\ CipherIdle /\ SigIdle /\ FortunaIdle /\ NumInit /\ PointIdle /\ HashPadIdle /\ HmacIdle /\ AesIdle /\ RandIdle
NextNum == NumSubCall \/ NumInvCall
SpecNum == InitNum /\ [][NextNum]_vars

InitPoint == PadIdle /\ CipherIdle /\ SigIdle /\ FortunaIdle /\ NumIdle /\ PointInit /\ HashPadIdle /\ HmacIdle /\ AesIdle /\ RandIdle
NextPoint ==
    \/ PointNewCall \/ PointInfinityCall \/ PointAddCall
    \/ PointScaleBegin \/ PointScaleIter
SpecPoint == InitPoint /\ [][NextPoint]_vars

InitHashPad == PadIdle /\ CipherIdle /\ SigIdle /\ FortunaIdle /\ NumIdle /\ PointIdle /\ HashPadInit /\ HmacIdle /\ AesIdle /\ RandIdle
NextHashPad ==
    \/ Sha1PadCall \/ LengthPaddingCall \/ LengthPaddingAgain
    \/ Pad10Star1Call
SpecHashPad == InitHashPad /\ [][NextHashPad]_vars

InitHmac == PadIdle /\ CipherIdle /\ SigIdle /\ FortunaIdle /\ NumIdle /\ PointIdle /\ HashPadIdle /\ HmacInit /\ AesIdle /\ RandIdle
NextHmac ==
    \/ HmacMacCall \/ HmacMacAgain
SpecHmac == InitHmac /\ [][NextHmac]_vars

InitAes == PadIdle /\ CipherIdle /\ SigIdle /\ FortunaIdle /\ NumIdle /\ PointIdle /\ HashPadIdle /\ HmacIdle /\ AesInit /\ RandIdle
NextAes ==
    \/ AesEncryptBegin \/ AesKeyExpansionStep \/ AesEncryptFirstKey
    \/ AesEncryptRound \/ AesEncryptFinal \/ AesDecryptBegin
    \/ AesDecryptFirstKey \/ AesDecryptRound \/ AesDecryptFinal
SpecAes == InitAes /\ [][NextAes]_vars

InitRand == PadIdle /\ CipherIdle /\ SigIdle /\ FortunaIdle /\ NumIdle /\ PointIdle /\ HashPadIdle /\ HmacIdle /\ AesIdle /\ RandInit
NextRand ==
    \/ UniformRandomCall
SpecRand == InitRand /\ [][NextRand]_vars

(***************************************************************************)
(* Properties of the padding.                                              *)
(***************************************************************************)
\* C2: for 1 <= n < 256 the padded length is a multiple of n, between 1 and
\* n bytes are appended (a full block of n bytes when the input is already
\* aligned), and unpadding the padded buffer gives back the input.
PadRoundTrip ==
    /\ padOp = "pad" =>
        /\ padOut.tag = "Ok"
        /\ Len(padOut.data) % padN = 0
        /\ Len(padOut.data) - Len(padIn) \in 1..padN
        /\ SubSeq(padOut.data, 1, Len(padIn)) = padIn
        /\ (Len(padIn) % padN = 0 => Len(padOut.data) = Len(padIn) + padN)
    /\ padOp = "roundtrip" => padOut = Ok(padIn)

PadRoundTripWitness ==
    /\ padOp = "roundtrip"
    /\ Len(padIn) > 0
    /\ Len(padIn) % padN = 0
    /\ padN > 1
    /\ padOut.tag = "Ok"

\* the last byte of d names a padding of m bytes that d ends with
ValidPadding(d, n) ==
    /\ Len(d) > 0
    /\ d[Len(d)] \in 1..n
    /\ d[Len(d)] <= Len(d)
    /\ \A i \in (Len(d) - d[Len(d)] + 1)..Len(d) : d[i] = d[Len(d)]

\* C3: unpad returns Err(InvalidPadding), and does not abort, for every
\* buffer that is empty, whose last byte m is 0 or above n, or whose last m
\* bytes are not all m, buffers shorter than m included.
UnpadRejectsInvalid ==
    (padOp = "unpad" /\ ~ValidPadding(padIn, padN)) =>
        padOut = Err("InvalidPadding")

(***************************************************************************)
(* Properties of the block modes.                                          *)
(***************************************************************************)
\* C1: decrypting what a mode encrypted gives back the plaintext, for ECB
\* and CBC with PKCS#7 and for CTR, for every plaintext (the empty one and
\* whole multiples of the block size included), key, IV and nonce.
CipherRoundTrip ==
    cpc = "decrypted" => cdec = Ok(cplain)

CipherRoundTripWitness ==
    /\ cpc = "decrypted"
    /\ cmode = "cbc"
    /\ Len(cplain) = 2 * cbs
    /\ cdec.tag = "Ok"

\* the i-th block (from 1) of a buffer
Blk(buf, bs, i) == SubSeq(buf, (i - 1) * bs + 1, i * bs)

\* D_K(C_i) xor C_(i-1) for every block of a ciphertext, C_0 = IV
CbcPlainBlocks(c, key, bs, iv) ==
    [idx \in 1..Len(c) |->
        LET i == ((idx - 1) \div bs) + 1
            prev == IF i = 1 THEN iv ELSE Blk(c, bs, i - 1)
        IN  XorInto(BlockDecrypt(Blk(c, bs, i), key), prev)[((idx - 1) % bs) + 1]]

\* C4: CBC encryption chains C_i = E_K(P_i xor C_(i-1)) over the padded
\* plaintext blocks with C_0 = IV, and CBC decryption computes
\* P_i = D_K(C_i) xor C_(i-1) from the previous ciphertext block.
CbcChaining ==
    /\ (cmode = "cbc" /\ cpc \in {"encrypted", "decrypted"}) =>
        LET p == cplain \o Repeat(cbs - (Len(cplain) % cbs), cbs - (Len(cplain) % cbs))
            c == ccipher.data
        IN  /\ ccipher.tag = "Ok"
            /\ Len(c) = Len(p)
            /\ \A i \in 1..(Len(p) \div cbs) :
                Blk(c, cbs, i) =
                    BlockEncrypt(XorInto(Blk(p, cbs, i),
                                         IF i = 1 THEN civ ELSE Blk(c, cbs, i - 1)),
                                 ckey)
    /\ (cmode = "cbc" /\ cpc \in {"decrypted", "foreign"} /\ Len(ccipher.data) % cbs = 0) =>
        cdec = Pkcs7Unpad(CbcPlainBlocks(ccipher.data, ckey, cbs, civ), cbs)

CbcChainingWitness ==
    /\ cmode = "cbc"
    /\ cpc = "decrypted"
    /\ Len(ccipher.data) >= 3 * cbs
    /\ civ # Repeat(0, cbs)
    /\ cbs > 1

\* the little-endian bytes of (c0 + j) mod 2^64, added byte by byte
LeBytesPlus(b, j) ==
    LET carry[i \in 0..CounterBytes] ==
            IF i = 0 THEN j ELSE (b[i] + carry[i - 1]) \div 256
    IN  [i \in 1..CounterBytes |-> (b[i] + carry[i - 1]) % 256]

\* byte idx (from 1) of the keystream the claim describes
CtrKeystreamByte(idx) ==
    LET j == (idx - 1) \div cbs
        ctr == LeBytesPlus(U64ToLeBytes(cnonce), j) \o Repeat(0, cbs - CounterBytes)
    IN  BlockEncrypt(ctr, ckey)[((idx - 1) % cbs) + 1]

\* C5: keystream block j of CTR is E_K(le64((nonce + j) mod 2^64) followed
\* by zero bytes), the ciphertext is the plaintext xor the keystream cut to
\* the plaintext length, and decryption is the same transformation.
CtrKeystream ==
    /\ (cmode = "ctr" /\ cpc \in {"encrypted", "decrypted"}) =>
        /\ ccipher.tag = "Ok"
        /\ Len(ccipher.data) = Len(cplain)
        /\ \A idx \in 1..Len(cplain) :
            ccipher.data[idx] = Xor(cplain[idx], CtrKeystreamByte(idx))
    /\ (cmode = "ctr" /\ cpc \in {"decrypted", "foreign"}) =>
        /\ cdec.tag = "Ok"
        /\ Len(cdec.data) = Len(ccipher.data)
        /\ \A idx \in 1..Len(ccipher.data) :
            cdec.data[idx] = Xor(ccipher.data[idx], CtrKeystreamByte(idx))

CtrKeystreamWitness ==
    /\ cmode = "ctr"
    /\ cpc = "decrypted"
    /\ cnonce = U64Max
    /\ Len(cplain) > 2 * cbs
    /\ Len(cplain) % cbs # 0

(***************************************************************************)
(* Properties of ECDSA.                                                    *)
(***************************************************************************)
\* C6: verifying, with the public key derived from the private key p, the
\* signature that sign(p, m) returned over the same message returns Ok,
\* whatever nonce the signing loop ended up using.
EcdsaSignVerify ==
    (spc = "verified" /\ vkey = Derive(curve, skey) /\ vsig = sig)
        => vres = "Ok"

\* a signature made with a non-zero key after the loop rejected a nonce, and
\* verified with the derived key
EcdsaSignVerifyWitness ==
    /\ spc = "verified" /\ vres = "Ok"
    /\ vkey = pkey /\ vsig = sig
    /\ skey > 0 /\ sattempts > 1

\* the multiples of the generator
GMultiples ==
    Tabulated([c \in Curves |->
        Tabulated([d \in 0..(c.N - 1) |-> Scale(c, c.G, d)])])

\* the p with pt = p * G
DLog(c, pt) == CHOOSE d \in 0..(c.N - 1) : GMultiples[c][d] = pt

\* (r, s) is what signing a message of digest e with the key p and some
\* nonce k gives: x(kG) = r and s * k = e + r * p, modulo N
SomeNonceYields(c, e, p, r, s) ==
    \E k \in 1..(c.N - 1) :
        /\ GMultiples[c][k].kind = "Finite"
        /\ GMultiples[c][k].x % c.N = r % c.N
        /\ (s * k) % c.N = (e + r * p) % c.N

\* C7, as stated: with the signer's key every signature other than the one
\* sign returned is rejected, and with any other valid public key the
\* signature sign returned is rejected.
EcdsaRejectsEveryOther ==
    spc = "verified" =>
        /\ (vkey = pkey /\ vsig # sig) => vres = "InvalidSignature"
        /\ (vsig = sig /\ vkey # pkey /\ vkey.kind = "Finite")
               => vres = "InvalidSignature"

\* C7, amended: for a public key P' = p'G and a signature (r', s') with s'
\* not zero, verify returns Ok exactly when some nonce k' in 1..N-1 has
\* x(k'G) = r' and s' * k' = H(m) + r' * p' modulo N, and
\* Err(InvalidSignature) otherwise; with the signer's key (r mod N, N - s)
\* is accepted as well as (r, s).
EcdsaAcceptsExactly ==
    /\ (spc = "verified" /\ vsig.s # 0) =>
           vres = IF SomeNonceYields(curve, HashNum(hsel, smsg),
                                     DLog(curve, vkey), vsig.r, vsig.s)
                  THEN "Ok" ELSE "InvalidSignature"
    /\ (/\ spc = "verified" /\ vkey = pkey
        /\ vsig = Signature(sig.r % curve.N, curve.N - sig.s))
           => vres = "Ok"

\* the signer's key accepts the signature with s negated
EcdsaAcceptsExactlyWitness ==
    /\ spc = "verified" /\ vres = "Ok"
    /\ vkey = pkey /\ skey > 0
    /\ vsig = Signature(sig.r % curve.N, curve.N - sig.s)
    /\ vsig # sig

\* C8: verify returns Ok or Err(InvalidSignature) for every public key and
\* every signature the constructor accepts, s = 0 included.
VerifyNeverAborts ==
    spc = "verified" => vres \in {"Ok", "InvalidSignature"}

\* C9: every signature, returned by sign or accepted by Signature::new, has
\* 0 < r < N and 0 < s < N.
SignatureInRange ==
    /\ sig # NoSig =>
           /\ 0 < sig.r /\ sig.r < curve.N
           /\ 0 < sig.s /\ sig.s < curve.N
    /\ vsig # NoSig =>
           /\ 0 < vsig.r /\ vsig.r < curve.N
           /\ 0 < vsig.s /\ vsig.s < curve.N

\* C10: PrivateKey::new(n) succeeds exactly when 0 < n < N, and no public
\* key, derived or built with PublicKey::new, is the point at infinity.
KeysValid ==
    /\ spc \notin {"idle", "new"} =>
           (skey # NoKey <=> (0 < keyIn /\ keyIn < curve.N))
    /\ pkey.kind # "Infinity"
    /\ vkey.kind # "Infinity"

\* the nonce of attempt i: the seed H(m followed by le(p)) hashed again i
\* times
RECURSIVE NonceAt(_)
NonceAt(i) ==
    IF i = 0 THEN HashNum(hsel, smsg \o NumToLeBytes(skey))
    ELSE HashNum(hsel, NumToLeBytes(NonceAt(i - 1)))

\* attempt i is rejected: k * G is the point at infinity or s would be zero
AttemptRejected(i) ==
    LET k == NonceAt(i) % curve.N
    IN  \/ k = 0
        \/ (HashNum(hsel, smsg) + GMultiples[curve][k].x * skey) % curve.N = 0

\* C11: sign is a function of the key and the message: attempt i uses the
\* seed H(m followed by le(p)) hashed again i times, the attempts are tried
\* in order, and the signature returned is the one of the first attempt
\* that is not rejected, r = x(kG) and s * k = H(m) + r * p modulo N.
EcdsaDeterministic ==
    /\ spc \in {"signing", "signed", "presented", "verified"} =>
           /\ snonce = NonceAt(sattempts)
           /\ \A i \in 1..(sattempts - 1) : AttemptRejected(i)
    /\ spc = "signing" => (sattempts > 0 => AttemptRejected(sattempts))
    /\ spc \in {"signed", "presented", "verified"} =>
           /\ sattempts >= 1
           /\ ~AttemptRejected(sattempts)
           /\ sig.r = GMultiples[curve][snonce % curve.N].x
           /\ 0 < sig.s /\ sig.s < curve.N
           /\ (sig.s * snonce) % curve.N
                  = (HashNum(hsel, smsg) + sig.r * skey) % curve.N

\* a signature returned by the second or a later attempt
EcdsaDeterministicWitness ==
    /\ spc = "signed"
    /\ sattempts > 1
    /\ skey > 0

(***************************************************************************)
(* Properties of Schnorr.                                                  *)
(***************************************************************************)
\* C12: sign does not abort, and verifying the signature it returned with
\* the public key derived from the signing key over the same message
\* returns Ok, for every nonce the generator delivers, those not below N
\* included.
SchnorrSignVerify ==
    /\ spc # "signpanic"
    /\ spc = "schnorrverified" => vres = "Ok"

\* a signature made with a nonce not below N, after a draw was rejected
SchnorrSignVerifyWitness ==
    /\ spc = "schnorrverified" /\ vres = "Ok"
    /\ vkey = Derive(curve, skey) /\ vsig = sig
    /\ snonce >= curve.N
    /\ sattempts > 1

\* C13: a signature returned by sign has s < N and e < N with
\* s = (k - p * e) mod N, for every nonce k of the generator, and
\* SchnorrSignature::new accepts a pair exactly when both are below N.
SchnorrSignatureInRange ==
    /\ spc \in {"schnorrsigned", "schnorrverified"} =>
           /\ sig.s < curve.N /\ sig.e < curve.N
           /\ sig.s = (snonce + curve.N * curve.N - skey * sig.e) % curve.N
    /\ spc \in {"schnorrbuilt", "invalidsig"} =>
           (spc = "schnorrbuilt" <=> (sig.s < curve.N /\ sig.e < curve.N))

(***************************************************************************)
(* Properties of the multisignatures.                                      *)
(***************************************************************************)
\* every signer revealed the point it committed to and holds the
\* SchnorrRandomness built from its number and the points of the others
HonestSession ==
    /\ Len(mrand) = Len(mkeys)
    /\ \A i \in 1..Len(mkeys) :
          /\ mreveal[i] = GMultiples[curve][mlocal[i] % curve.N]
          /\ mrand[i].tag = "Ok"

\* C14: in a session of honest signers, each signing once in any order
\* from the default signature, no call aborts, the signature after the
\* last signer is accepted by verify with the full key list, and a running
\* signature that lacks a signer is rejected.
MultisigHonestSession ==
    HonestSession =>
        /\ spc # "signpanic"
        /\ spc = "multiverified" =>
               vres = IF msigned = 1..Len(mkeys) THEN "Ok"
                      ELSE "InvalidSignature"

\* C15: a signer builds its randomness and signs only with revealed points
\* that match the commitments published for them: a point that does not
\* match is rejected and no share is produced with it.
CommitmentChecked ==
    \A i \in 1..Len(mrand) :
        (mrand[i].tag = "Ok" \/ i \in msigned) =>
            \A j \in (1..Len(mkeys)) \ {i} :
                Commitment(hsel, mreveal[j]) = mcommit[j]

\* the sum modulo N of the discrete logarithms of pts[1..j] without pts[i]
RECURSIVE DLogSum(_, _, _)
DLogSum(pts, i, j) ==
    IF j = 0 THEN 0
    ELSE (DLogSum(pts, i, j - 1)
              + (IF j = i THEN 0 ELSE DLog(curve, pts[j]))) % curve.N

\* the t with local * G + the points revealed to signer i = t * G
TotalLog(i) == (mlocal[i] + DLogSum(mreveal, i, Len(mreveal))) % curve.N

\* C16: SchnorrRandomness::new returns Err(InvalidSchnorrRandomness)
\* exactly when local * G plus the points of the others is the point at
\* infinity, and otherwise a value that holds local and the x coordinate
\* of that finite sum.
RandomnessTotalFinite ==
    \A i \in 1..Len(mrand) :
        /\ mrand[i].tag = "InvalidSchnorrRandomness" <=> TotalLog(i) = 0
        /\ TotalLog(i) # 0 =>
               /\ GMultiples[curve][TotalLog(i)].kind = "Finite"
               /\ mrand[i] = Ok([local |-> mlocal[i],
                                 total |-> GMultiples[curve][TotalLog(i)].x])

\* of two signers the first got a value and the second, whose own point is
\* finite, got the error because the sum is the point at infinity
RandomnessTotalFiniteWitness ==
    /\ Len(mrand) = 2
    /\ mrand[1].tag = "Ok"
    /\ mrand[2].tag = "InvalidSchnorrRandomness"
    /\ mlocal[2] % curve.N # 0

(***************************************************************************)
(* Properties of Fortuna.                                                  *)
(***************************************************************************)
\* C17: the iterator yields a byte at every call, and after k bytes were
\* drawn the entropy source has been asked ceil(k / RESEED_SIZE) times,
\* each time for SEED_SIZE bytes: request j is made in the call that
\* yields byte RESEED_SIZE * (j - 1), not before.
FortunaReseedsLazily ==
    /\ fpc \notin {"panic"}
    /\ fpc = "iterating" =>
           /\ Len(fseeds) = (Len(fout) + ReseedSize - 1) \div ReseedSize
           /\ \A j \in 1..Len(fseeds) : Len(fseeds[j]) = SeedSize
           /\ Len(fchunk) = Len(fseeds) * ReseedSize - Len(fout)

\* the last byte of the second chunk was drawn and the third request has
\* not been made
FortunaReseedsLazilyWitness ==
    /\ fpc = "iterating"
    /\ Len(fout) = 2 * ReseedSize
    /\ Len(fseeds) = 2
    /\ fchunk = <<>>

\* the key of chunk j: the all-zero key for j = 0
RECURSIVE KeyAt(_)
KeyAt(j) ==
    IF j = 0 THEN Repeat(0, DigestSize)
    ELSE Hash(fhash, KeyAt(j - 1) \o fseeds[j])

\* byte idx (from 1) of the CTR keystream under the key with the counter
\* starting at 0
KeystreamByte(key, idx) ==
    BlockEncrypt(LeBytesPlus(Repeat(0, CounterBytes), (idx - 1) \div fbs)
                     \o Repeat(0, fbs - CounterBytes),
                 key)[((idx - 1) % fbs) + 1]

\* C18: output bytes RESEED_SIZE * (j - 1) .. RESEED_SIZE * j - 1 are the
\* first RESEED_SIZE bytes of the CTR keystream under key_j with the
\* counter starting again at 0, key_0 the all-zero key and
\* key_j = H(key_(j-1) followed by seed_j); the stream is a function of the
\* seeds.
FortunaChunkKeystream ==
    fpc = "iterating" =>
        /\ fkey = KeyAt(Len(fseeds))
        /\ \A k \in 1..Len(fout) :
               fout[k] = KeystreamByte(KeyAt(((k - 1) \div ReseedSize) + 1),
                                       ((k - 1) % ReseedSize) + 1)

\* bytes of the third chunk were drawn, past its first block, after seeds
\* that differ
FortunaChunkKeystreamWitness ==
    /\ fpc = "iterating"
    /\ Len(fseeds) = 3
    /\ Len(fout) > 2 * ReseedSize + fbs
    /\ fseeds[1] # fseeds[2]

(***************************************************************************)
(* Properties of Num.                                                      *)
(***************************************************************************)
\* C19: for all values a and b of Num, below the modulus or not, sub
\* returns (a - b) mod p, a value below p, and its assertion on the carry
\* does not fail.
NumSubExact ==
    npc = "sub" =>
        /\ nres # NumPanic
        /\ nres < np
        /\ nres = (na + Pow2N(NumBits) * np - nb) % np

\* C20: for a prime p and every value a of Num, inv returns None exactly
\* when a is zero, and for every other a a value x below p with a * x
\* congruent to 1 modulo p.
NumInvExact ==
    npc = "inv" =>
        /\ nres = NumNone <=> na = 0
        /\ na # 0 =>
               /\ 0 <= nres /\ nres < np
               /\ (na * nres) % np = 1

(***************************************************************************)
(* Properties of Point.                                                    *)
(***************************************************************************)
\* both coordinates of the point are below P
CoordsBelowP(p) == p.kind = "Infinity" \/ (p.x < pcv.P /\ p.y < pcv.P)

\* q is the negation of p
Negation(p, q) ==
    /\ p.kind = "Finite" /\ q.kind = "Finite"
    /\ p.x = q.x /\ (p.y + q.y) % pcv.P = 0

\* C21: for on-curve points with coordinates below P, Infinity is a
\* two-sided identity, the sum of two finite points is Infinity exactly
\* when the second is the negation of the first, and in every other case
\* the sum is a finite point of the curve and the addition does not abort.
PointAddGroupLaw ==
    (ppc = "added" /\ CoordsBelowP(pp1) /\ CoordsBelowP(pp2)) =>
        /\ pp2.kind = "Infinity" => pres = pp1
        /\ pp1.kind = "Infinity" => pres = pp2
        /\ (pp1.kind = "Finite" /\ pp2.kind = "Finite") =>
              /\ pres.kind = "Infinity" <=> Negation(pp1, pp2)
              /\ ~Negation(pp1, pp2) =>
                     /\ pres.kind = "Finite"
                     /\ OnCurve(pcv, pres.x, pres.y)

\* the inverse of v in the field of p elements, v not a multiple of p
FieldInv(p, v) == CHOOSE i \in 1..(p - 1) : (i * v) % p = 1

\* the residue of the integer v modulo p
FieldMod(p, v) == ((v % p) + p) % p

\* the slope (3 * x^2 + a) / (2 * y) of the tangent
TangentSlope(c, x, y) ==
    FieldMod(c.P, (3 * x * x + c.A) * FieldInv(c.P, FieldMod(c.P, 2 * y)))

\* the point (h^2 - x1 - x2, h * (x1 - x3) - y1) for the slope h
ThirdPoint(c, h, x1, y1, x2) ==
    Finite(FieldMod(c.P, h * h - x1 - x2),
           FieldMod(c.P, h * (x1 - FieldMod(c.P, h * h - x1 - x2)) - y1))

\* C22: on every curve, whatever its coefficients a and b, doubling a
\* finite point with y not zero returns the on-curve point
\* (h^2 - 2x, h * (x - x3) - y) for the slope h = (3 * x^2 + a) / (2 * y).
DoublingUsesA ==
    (ppc = "added" /\ pp1 = pp2 /\ pp1.kind = "Finite" /\ pp1.y % pcv.P # 0) =>
        /\ pres = ThirdPoint(pcv, TangentSlope(pcv, pp1.x, pp1.y),
                             pp1.x, pp1.y, pp1.x)
        /\ OnCurve(pcv, pres.x, pres.y)

\* the sum of two points with coordinates below P, by the group law
GroupAdd(c, p, q) ==
    IF p.kind = "Infinity" THEN q
    ELSE IF q.kind = "Infinity" THEN p
    ELSE IF p.x = q.x /\ (p.y + q.y) % c.P = 0 THEN Infinity
    ELSE IF p = q
    THEN ThirdPoint(c, TangentSlope(c, p.x, p.y), p.x, p.y, p.x)
    ELSE ThirdPoint(c, FieldMod(c.P, (q.y - p.y)
                                        * FieldInv(c.P, FieldMod(c.P, q.x - p.x))),
                    p.x, p.y, q.x)

\* the point with the coordinates reduced modulo P
ReducedPoint(c, p) ==
    IF p.kind = "Finite" THEN Finite(p.x % c.P, p.y % c.P) ELSE p

\* k * Q as Q added to itself k times, for the points Q with coordinates
\* below P and k below the order N of the group
Multiples ==
    Tabulated([c \in PointCurves |->
        Tabulated([Q \in {ReducedPoint(c, p) : p \in PointsOffered[c]} |->
            LET mul[k \in 0..(c.N - 1)] ==
                    IF k = 0 THEN Infinity ELSE GroupAdd(c, mul[k - 1], Q)
            IN  Tabulated(mul)])])

\* n * Q, Q added to itself n times: N * Q is Infinity
Times(c, n, Q) == Multiples[c][ReducedPoint(c, Q)][n % c.N]

\* C23: n * Q is Q added to itself n times for every scalar n and every
\* on-curve point Q: after i iterations of the loop the accumulator is
\* (n mod 2^i) * Q and the running double 2^i * Q, and the loop runs
\* Num::BITS iterations without aborting.
ScaleIsRepeatedAddition ==
    /\ ppc # "panic"
    /\ ppc \in {"scaling", "scaled"} =>
           /\ ReducedPoint(pcv, pacc) = Times(pcv, pn % Pow2N(pi), pp1)
           /\ ReducedPoint(pcv, pdbl) = Times(pcv, Pow2N(pi), pp1)
    /\ ppc = "scaled" =>
           /\ pi = NumBits
           /\ ReducedPoint(pcv, pres) = Times(pcv, pn, pp1)
           /\ pn = 0 => pres = Infinity
           /\ pn = 1 => pres = pp1

(***************************************************************************)
(* Properties of the paddings of the hash functions.                       *)
(***************************************************************************)
\* the blocks one after the other
RECURSIVE Concat(_)
Concat(blocks) ==
    IF blocks = <<>> THEN <<>>
    ELSE Concat(SubSeq(blocks, 1, Len(blocks) - 1)) \o blocks[Len(blocks)]

\* the number the bytes are the big-endian digits of
RECURSIVE BeValue(_)
BeValue(bytes) ==
    IF bytes = <<>> THEN 0
    ELSE 256 * BeValue(SubSeq(bytes, 1, Len(bytes) - 1)) + bytes[Len(bytes)]

\* the blocks are the message, 0x80, zeros and the bit length in the last
\* eight bytes
IsLengthPadded(blocks, m) ==
    /\ \A i \in 1..Len(blocks) : Len(blocks[i]) = BlockBytes
    /\ SubSeq(Concat(blocks), 1, Len(m)) = m
    /\ Concat(blocks)[Len(m) + 1] = 128
    /\ \A i \in (Len(m) + 2)..(Len(blocks) * BlockBytes - LengthBytes) :
           Concat(blocks)[i] = 0
    /\ BeValue(SubSeq(Concat(blocks), Len(blocks) * BlockBytes - LengthBytes + 1,
                      Len(blocks) * BlockBytes)) = 8 * Len(m)

\* C24: the length padding of SHA-1 and SHA-2 yields
\* floor((L + 8) / 64) + 1 blocks of 64 bytes that are the message, 0x80,
\* zeros and 8 * L as a big-endian u64; a block is added exactly when
\* L mod 64 >= 56, and a whole block of padding when L mod 64 = 0.
LengthPaddingLayout ==
    (hkind \in {"sha1", "sha2"} /\ hpc \in {"padded", "paddedpair"}) =>
        /\ Len(hout1) = ((Len(hm1) + 8) \div 64) + 1
        /\ IsLengthPadded(hout1, hm1)
        /\ Len(hout1) = (Len(hm1) \div 64) + 1
                            + (IF Len(hm1) % 64 >= 56 THEN 1 ELSE 0)
        /\ Len(hm1) % 64 = 0 =>
               hout1[Len(hout1)] = <<128>> \o Repeat(0, 55)
                                       \o Repeat(0, 6)
                                       \o <<(8 * Len(hm1)) \div 256,
                                            (8 * Len(hm1)) % 256>>

\* a message of 120 bytes padded by Sha1Pad: 0x80 fits in the second block
\* and the length does not
LengthPaddingLayoutWitness ==
    /\ hpc = "padded" /\ hkind = "sha1"
    /\ Len(hm1) = 120
    /\ Len(hout1) = 3
    /\ hm1[1] # 0

\* C25: LengthPadding is Merkle-Damgard compliant: a message is a prefix of
\* its padding, messages of equal length have paddings of equal length, and
\* messages of different lengths have paddings with different last blocks.
LengthPaddingCompliant ==
    hpc = "paddedpair" =>
        /\ SubSeq(Concat(hout1), 1, Len(hm1)) = hm1
        /\ SubSeq(Concat(hout2), 1, Len(hm2)) = hm2
        /\ Len(hm1) = Len(hm2) => Len(Concat(hout1)) = Len(Concat(hout2))
        /\ Len(hm1) # Len(hm2) => hout1[Len(hout1)] # hout2[Len(hout2)]

\* two messages whose lengths differ by a block, the shorter one all zeros
LengthPaddingCompliantWitness ==
    /\ hpc = "paddedpair"
    /\ Len(hm1) = 1 /\ Len(hm2) = 65
    /\ hm1 = <<0>> /\ hm2[1] = 0
    /\ hout1[Len(hout1)] # hout2[Len(hout2)]

\* C26: pad10star1 yields floor(L / R) + 1 blocks of R bytes that are the
\* input followed by a padding that starts with 0x06, ends with 0x80 and
\* is zero in between; a single byte of padding is 0x86, and an input of
\* whole blocks gets a whole block of padding.
Pad10Star1Layout ==
    (hkind = "sha3" /\ hpc = "padded") =>
        /\ Len(hout1) = (Len(hm1) \div hrate) + 1
        /\ \A i \in 1..Len(hout1) : Len(hout1[i]) = hrate
        /\ SubSeq(Concat(hout1), 1, Len(hm1)) = hm1
        /\ IF Len(hm1) % hrate = hrate - 1
           THEN Concat(hout1)[Len(hm1) + 1] = 134
           ELSE /\ Concat(hout1)[Len(hm1) + 1] = 6
                /\ Concat(hout1)[Len(hout1) * hrate] = 128
                /\ \A i \in (Len(hm1) + 2)..(Len(hout1) * hrate - 1) :
                       Concat(hout1)[i] = 0

(***************************************************************************)
(* Properties of HMAC.                                                     *)
(***************************************************************************)
\* K' as the construction defines it: the key followed by zeros up to the
\* block size, or the digest of the key followed by zeros
PaddedKey(seed, block, key) ==
    IF Len(key) <= block
    THEN key \o Repeat(0, block - Len(key))
    ELSE Hash(seed, key) \o Repeat(0, block - DigestSize)

\* C27: the tag is H((K' xor 0x5c..) || H((K' xor 0x36..) || msg)), where K'
\* is the key right-padded with zeros to the block size when the key is at
\* most one block long (a key of exactly one block is not hashed) and the
\* digest of the key right-padded with zeros otherwise; a second call on
\* the same key and message returns the same tag.
HmacConstruction ==
    /\ tpc \in {"tagged", "again"} =>
          ttag = Hash(tseed,
                      XorPad(PaddedKey(tseed, tblock, tkey), 92)
                      \o Hash(tseed, XorPad(PaddedKey(tseed, tblock, tkey), 54)
                                     \o tmsg))
    /\ tpc = "again" => ttag2 = ttag

\* a key longer than one block has been hashed and used twice
HmacConstructionWitness ==
    /\ tpc = "again" /\ Len(tkey) > tblock /\ Len(tmsg) > 0 /\ ttag2 = ttag

\* a key of exactly one block has been used twice
HmacBlockKeyWitness ==
    /\ tpc = "again" /\ Len(tkey) = tblock /\ ttag2 = ttag

(***************************************************************************)
(* Properties of AES.                                                      *)
(***************************************************************************)
\* the inverse steps undo the steps on a state
StepsInvert(state) ==
    /\ InvSubBytes(SubBytes(state)) = state
    /\ InvShiftRows(ShiftRows(state)) = state
    /\ InvMixColumns(MixColumns(state)) = state

\* the round keys 0, 1, .., NR followed by NR, .., 1, 0
ThereAndBack(nr) ==
    [k \in 1..(2 * (nr + 1)) |-> IF k <= nr + 1 THEN k - 1 ELSE 2 * (nr + 1) - k]

\* C28: for each key size, decrypt of encrypt under the same key returns
\* the block; decrypt takes the round keys in the reverse order of encrypt;
\* the inverse S-box undoes the S-box on every byte, and InvSubBytes,
\* InvShiftRows and InvMixColumns undo SubBytes, ShiftRows and MixColumns
\* on every state the two functions pass through.
AesRoundTrip ==
    /\ apc = "decrypted" =>
          /\ adec = ablock
          /\ akeys = ThereAndBack(avar.NR)
          /\ \A b \in Byte : INV_S_BOX[S_BOX[b + 1] + 1] = b
    /\ apc \in {"rounds_enc", "rounds_dec"} => StepsInvert(astate)
    /\ apc \in {"encrypted", "decrypted"} => StepsInvert(acipher)

\* a 32-byte key has been used to encrypt and decrypt a block that the
\* cipher changed
AesRoundTripWitness ==
    /\ apc = "decrypted" /\ avar = Aes256 /\ adec = ablock /\ acipher # ablock
    /\ Len(akeys) = 30

(***************************************************************************)
(* Properties of uniform_random.                                           *)
(***************************************************************************)
\* C29: for every range start..end with start < end and every draw,
\* uniform_random takes exactly four bytes from the stream and returns,
\* without aborting, a value v with start <= v < end.
UniformRandomInRange ==
    /\ rpc # "panic"
    /\ rpc = "drawn" =>
          /\ Len(rstream) = StreamLen - 4
          /\ rstart <= rres
          /\ rres < rend

(***************************************************************************)
(* Properties of the order of the signers and of the key list.             *)
(***************************************************************************)
\* what signer i returns from the default signature with the keys of the
\* session in the order of the session
ShareOf(i) ==
    MultiSign(curve, hsel, mkeys[i], SessionKeys, mrand[i].data, smsg,
              SchnorrSignatureDefault)

\* the sum modulo N of the shares of the signers in S among 1..i
RECURSIVE ShareSum(_, _)
ShareSum(S, i) ==
    IF i = 0 THEN 0
    ELSE (ShareSum(S, i - 1) + (IF i \in S THEN ShareOf(i).sig.s ELSE 0))
             % curve.N

\* C30: in a session of honest signers the running signature depends
\* neither on the order of the sign calls nor on the order of the key list
\* passed to sign and verify: s is the sum modulo N of the shares of the
\* signers that signed, e is the challenge every one of them computes
\* whatever e came in, a call aborts only for a signer whose call aborts in
\* every order, and verify answers as it does with the keys in the order
\* of the session.
MultisigOrderIndependent ==
    HonestSession =>
        /\ spc \in {"revealed", "multiverified"} =>
              /\ \A i \in msigned : ShareOf(i).outcome = "signed"
              /\ sig.s = ShareSum(msigned, Len(mkeys))
              /\ \A i \in msigned : sig.e = ShareOf(i).sig.e
        /\ spc = "signpanic" =>
              \E i \in msigned : ShareOf(i).outcome = "panic"
        /\ spc = "multiverified" =>
              vres = MultiVerify(curve, hsel, SessionKeys, smsg, vsig)

\* two signers with different keys have signed, the second on a running
\* signature that carried the share and the challenge of the first, and
\* verify accepted the result
MultisigOrderIndependentWitness ==
    /\ HonestSession /\ spc = "multiverified" /\ vres = "Ok"
    /\ msigned = {1, 2} /\ mkeys[1] # mkeys[2]
    /\ ShareOf(1).sig.s # 0 /\ ShareOf(2).sig.s # 0

====
